---- MODULE Spec2Model ----
(***************************************************************************)
(* radish: an in-memory key-value store (radish-database, radish-server).  *)
(*                                                                         *)
(* The model follows the storage engine of src/radish-database: the        *)
(* keyspace (an IndexMap of keys to shared container handles behind one    *)
(* tokio RwLock), the containers (each behind its own RwLock), lock_all,   *)
(* the expiration controller, the awaker installed by radish-server and    *)
(* the reaper task it spawns.  A handler is cut into steps at its lock     *)
(* acquisitions (the .await points at which another task can run); what    *)
(* lies between two acquisitions is synchronous code and is one step.      *)
(*                                                                         *)
(* tokio's RwLock is fair: waiters queue first-in first-out and a reader   *)
(* that arrives behind a queued writer waits behind it.                    *)
(***************************************************************************)
EXTENDS Integers, Sequences, FiniteSets, TLC

VARIABLES
    containers,     \* Storage.containers: IndexMap<Key, ContainerPtr>, as a sequence of [key, ptr]
    heap,           \* the containers behind the handles: ptr -> [kind, inner, expiration_time]
    locks,          \* lock id -> [holders, queue]; id KS is the keyspace lock, id h is container h's
    expires_queue,  \* ExpireController.expires_queue, as a set of <<timepoint, key>>
    now,            \* SystemTime::now(), in clock ticks
    task,           \* per task (connection or spawned reaper): position and locals
    setup,          \* commands still to run, one after another, before the clients start
    todo,           \* per connection: the commands it still sends
    hist,           \* per connection: the commands it completed, with their results
    pre             \* per connection: the store as it was when its current command began

vars == <<containers, heap, locks, expires_queue, now, task, setup, todo, hist, pre>>

----------------------------------------------------------------------------
(* Bounds of the model *)

MaxHandle == 3          \* container addresses are 1..MaxHandle
MaxTime == 4            \* the clock runs from 0 to MaxTime
MilliTicks == 2         \* clock ticks in a millisecond (a tick stands for a microsecond)
SecTicks == 3           \* clock ticks in a second
IntBits == 6            \* the width of i64 and u64, scaled down

(* Program constants *)

KS == 0                 \* the lock id of Storage.containers; lock_all's address 0 is "no handle"
PivotMicros == 1        \* expire.rs: pivot = now + Duration::from_micros(1)
AwakerMillis == 1       \* main.rs: timepoint + Duration::from_millis(1)
DefaultStep == 1        \* strings.rs: INCR without a step adds 1
MillisPerSec == 1000    \* Duration::from_millis: the seconds part is millis / 1000

Handles == 1..MaxHandle
Clients == {"c1", "c2", "c3"}
Reapers == {"r1", "r2"}
Tasks == Clients \cup Reapers

----------------------------------------------------------------------------
(* radish-types: Value *)

Nill == [t |-> "Nill"]
OkV == [t |-> "Ok"]
BoolV(b) == [t |-> "Bool", bool |-> b]
IntV(i) == [t |-> "Integer", int |-> i]
Buf(s) == [t |-> "Buffer", buf |-> s]
Arr(s) == [t |-> "Array", arr |-> s]
ErrV(m) == [t |-> "Error", msg |-> m]
(* Not a Value: a handler's Err(text), which execute makes a Value::Error *)
Err(m) == [t |-> "Err", msg |-> m]
(* Not a Value: the handler panicked, the connection's task is gone. *)
Panicked == [t |-> "Panic"]
NoRet == [t |-> "None"]

None == <<>>
Some(x) == <<x>>
IsSome(o) == o # <<>>
Unwrap(o) == o[1]

(* a buffer holding the bytes of a key or of a type name *)
Text(x) == [t |-> "Buffer", text |-> x]
UnexpectedType == ErrV("Unexpected container type")

----------------------------------------------------------------------------
(* Sequence helpers *)

Range(s) == {s[i] : i \in DOMAIN s}

RECURSIVE SeqOfSet(_)
SeqOfSet(S) == IF S = {} THEN <<>>
               ELSE LET x == CHOOSE y \in S : \A z \in S : y <= z
                    IN <<x>> \o SeqOfSet(S \ {x})

Max2(a, b) == IF a >= b THEN a ELSE b
Min2(a, b) == IF a <= b THEN a ELSE b

RemoveAt(s, i) == SubSeq(s, 1, i - 1) \o SubSeq(s, i + 1, Len(s))

Position(s, x) == IF \E i \in DOMAIN s : s[i] = x
                  THEN CHOOSE i \in DOMAIN s : s[i] = x /\ \A j \in 1..(i-1) : s[j] # x
                  ELSE 0

----------------------------------------------------------------------------
(* indexmap::IndexMap, as the keyspace uses it (container.rs: Containers) *)

IndexOfKey(cs, key) == IF \E i \in DOMAIN cs : cs[i].key = key
                       THEN CHOOSE i \in DOMAIN cs : cs[i].key = key
                       ELSE 0

MapGet(cs, key) == IF IndexOfKey(cs, key) = 0 THEN None
                   ELSE Some(cs[IndexOfKey(cs, key)].ptr)

(* IndexMap::insert: an existing key keeps its position and gets the new value *)
MapInsert(cs, key, ptr) ==
    IF IndexOfKey(cs, key) = 0
    THEN Append(cs, [key |-> key, ptr |-> ptr])
    ELSE [cs EXCEPT ![IndexOfKey(cs, key)].ptr = ptr]

(* IndexMap::remove is swap_remove: the last entry moves into the hole *)
MapRemove(cs, key) ==
    LET i == IndexOfKey(cs, key)
        n == Len(cs)
    IN IF i = 0 THEN cs
       ELSE IF i = n THEN SubSeq(cs, 1, n - 1)
       ELSE SubSeq([cs EXCEPT ![i] = cs[n]], 1, n - 1)

MapKeys(cs) == {cs[i].key : i \in DOMAIN cs}
MapPtrs(cs) == {cs[i].ptr : i \in DOMAIN cs}

(* indexmap::IndexSet / IndexMap as container inners: sequences without repeats *)
SetInsert(s, v) == IF v \in Range(s) THEN s ELSE Append(s, v)
SetSwapRemoveIndex(s, i) ==
    IF i = Len(s) THEN SubSeq(s, 1, Len(s) - 1)
    ELSE SubSeq([s EXCEPT ![i] = s[Len(s)]], 1, Len(s) - 1)
SetRemove(s, v) == IF Position(s, v) = 0 THEN s ELSE SetSwapRemoveIndex(s, Position(s, v))

FieldIndex(h, f) == IF \E i \in DOMAIN h : h[i][1] = f
                    THEN CHOOSE i \in DOMAIN h : h[i][1] = f
                    ELSE 0
HashInsert(h, f, v) == IF FieldIndex(h, f) = 0 THEN Append(h, <<f, v>>)
                       ELSE [h EXCEPT ![FieldIndex(h, f)] = <<f, v>>]
HashGet(h, f) == IF FieldIndex(h, f) = 0 THEN None ELSE Some(h[FieldIndex(h, f)][2])

----------------------------------------------------------------------------
(* container.rs: Container, ContainerImpl::new *)

FreeSlot == [kind |-> "free", inner |-> <<>>, expiration_time |-> None]
NewContainer(kind) == [kind |-> kind, inner |-> <<>>, expiration_time |-> None]

(* keys.rs: get_expiration_time / type_to_string *)
get_expiration_time(c) == c.expiration_time
type_to_string(c) == c.kind

(* the handles a task's locals keep alive (its Arc clones) *)
TaskRefs(tk) == (Range(tk.hs) \cup Range(tk.rs)) \ {KS}

(* An Arc frees its container when the last clone is dropped: a handle that is
   neither in the keyspace nor in a task's locals is free, its address reusable. *)
LiveHandles(cs, tks) == MapPtrs(cs) \cup UNION {TaskRefs(tks[t]) : t \in DOMAIN tks}
(* a container that dies with its key, whoever still has a handle to it *)
SweepUnstored(hp, cs, tks) == [h \in Handles |-> IF h \in MapPtrs(cs) THEN hp[h] ELSE FreeSlot]
Sweep(hp, cs, tks) == [h \in Handles |-> IF h \in LiveHandles(cs, tks) THEN hp[h] ELSE FreeSlot]
FreeHandles(cs, tks) == Handles \ LiveHandles(cs, tks)

----------------------------------------------------------------------------
(* Bytes.  A buffer is a sequence of bytes; text is its ASCII encoding. *)

IsDigit(b) == b >= 48 /\ b <= 57

(* u8::to_ascii_uppercase, over a buffer (str::to_uppercase on ASCII text) *)
UpperByte(b) == IF b >= 97 /\ b <= 122 THEN b - 32 ELSE b
to_uppercase(s) == [i \in DOMAIN s |-> UpperByte(s[i])]

RECURSIVE DigitsValue(_)
DigitsValue(s) == IF s = <<>> THEN 0
                  ELSE 10 * DigitsValue(SubSeq(s, 1, Len(s) - 1)) + (s[Len(s)] - 48)

(* str::parse::<i64>: an optional sign and at least one digit; nothing else *)
ParsesAsI64(s) ==
    LET body == IF s # <<>> /\ (s[1] = 45 \/ s[1] = 43) THEN Tail(s) ELSE s
    IN body # <<>> /\ \A i \in DOMAIN body : IsDigit(body[i])
ParseI64(s) ==
    IF s[1] = 45 THEN 0 - DigitsValue(Tail(s))
    ELSE IF s[1] = 43 THEN DigitsValue(Tail(s))
    ELSE DigitsValue(s)

(* strings.rs: inner_parse: the empty buffer reads as the default *)
inner_parse(cnt, def) ==
    IF Len(cnt) = 0 THEN [ok |-> TRUE, num |-> def]
    ELSE IF ParsesAsI64(cnt) THEN [ok |-> TRUE, num |-> ParseI64(cnt)]
    ELSE [ok |-> FALSE, num |-> 0]

RECURSIVE FormatNat(_)
FormatNat(n) == IF n < 10 THEN <<48 + n>>
                ELSE FormatNat(n \div 10) \o <<48 + (n % 10)>>
(* format!("{}", number) *)
FormatI64(n) == IF n < 0 THEN <<45>> \o FormatNat(0 - n) ELSE FormatNat(n)


----------------------------------------------------------------------------
(* tokio::sync::RwLock (and Mutex, an RwLock only ever write-locked).
   holders: the guards alive, as <<task, mode>>; queue: the waiters, first in
   first out.  A request is granted at once when nobody waits and the mode is
   compatible with the guards alive; otherwise the task queues and is granted
   when it is first in the queue and the mode has become compatible. *)

FreeLock == [holders |-> {}, queue |-> <<>>]

Compatible(lk, mode) ==
    IF mode = "r" THEN \A x \in lk.holders : x[2] = "r" ELSE lk.holders = {}

InQueue(lk, t) == \E i \in DOMAIN lk.queue : lk.queue[i][1] = t

Granted(lk, t, mode) ==
    /\ Compatible(lk, mode)
    /\ IF lk.queue = <<>> THEN TRUE ELSE lk.queue[1][1] = t

Dequeued(lk, t) ==
    IF lk.queue # <<>> /\ lk.queue[1][1] = t THEN [lk EXCEPT !.queue = Tail(@)] ELSE lk

(* the guard is kept beyond the step *)
Acquire(lks, t, l, mode) ==
    [lks EXCEPT ![l] = [Dequeued(@, t) EXCEPT !.holders = @ \cup {<<t, mode>>}]]
(* the guard is taken and dropped within the step *)
Pass(lks, t, l) == [lks EXCEPT ![l] = Dequeued(@, t)]
Release(lks, t, l) == [lks EXCEPT ![l].holders = {x \in @ : x[1] # t}]
ReleaseAll(lks, t) ==
    [l \in DOMAIN lks |-> [lks[l] EXCEPT !.holders = {x \in @ : x[1] # t}]]

Holds(lks, t, l) == \E x \in lks[l].holders : x[1] = t
HeldBy(lks, t) == {l \in DOMAIN lks : Holds(lks, t, l)}

(* task.want is the acquisition the task is at: <<lock, mode>>, or <<>> *)
CanAcquire(t) ==
    /\ task[t].want # <<>>
    /\ Granted(locks[task[t].want[1]], t, task[t].want[2])

WantKs(mode) == <<KS, mode>>

----------------------------------------------------------------------------
(* Commands.  cmd = [op, keys, args]: the uppercased name (lib.rs: execute),
   the keys the handler extracts, and its remaining arguments (Values). *)

Cmd(op, keys, args) == [op |-> op, keys |-> keys, args |-> args]
NoCmd == Cmd("", <<>>, <<>>)

(* handlers built on strings_lock / list_lock / set_lock / hash_lock (and _mut):
   get_container creates the key when it is missing *)
StringLockOps == {"STRLEN", "APPEND", "INCR", "INCRBY", "DECR", "DECRBY", "SETEX", "PSETEX",
                  "SETBIT", "GETBIT"}
ListLockOps == {"LLEN", "LPUSH", "RPUSH", "LRANGE", "LTRIM", "LSET"}
SetLockOps == {"SCARD", "SMEMBERS", "SISMEMBER", "SADD", "SSCAN", "SPOP"}
HashLockOps == {"HLEN", "HGET", "HSET", "HSCAN", "HSETNX"}
CreateLockOps == StringLockOps \cup ListLockOps \cup SetLockOps \cup HashLockOps
(* handlers built on try_get_container: a missing key is left missing *)
ListTryOps == {"LPUSHX", "RPUSHX"}
TtlOps == {"TTL", "PTTL"}
ExpireOps == {"EXPIRE", "PEXPIRE", "EXPIREAT", "PEXPIREAT"}
TryLockOps == ListTryOps \cup TtlOps \cup ExpireOps
SingleOps == CreateLockOps \cup TryLockOps
(* handlers built on set_lock_containers and strings_locks: lock_all *)
SetMultiOps == {"SMOVE", "SDIFF", "SINTER", "SUNION", "SDIFFSTORE", "SINTERSTORE", "SUNIONSTORE"}
StringMultiOps == {"GET", "GETSET", "MGET", "MSET", "BITOP"}
MultiOps == SetMultiOps \cup StringMultiOps
(* handlers that work on the keyspace map alone *)
KsWriteOps == {"DEL", "SET", "SETNX"}
KsReadOps == {"EXISTS", "KEYS"}
KsOps == KsWriteOps \cup KsReadOps

(* the container the handler's factory makes, and the variant it unwraps *)
OpKind(op) ==
    IF op \in StringLockOps \cup StringMultiOps THEN "string"
    ELSE IF op \in ListLockOps \cup ListTryOps THEN "list"
    ELSE IF op \in SetLockOps \cup SetMultiOps THEN "set"
    ELSE IF op \in HashLockOps THEN "hash"
    ELSE "any"

(* the mode of the container lock: list_lock and set_lock read(), the _mut
   forms write(); the strings_ and hash_ forms lock(), which is exclusive;
   keys_expiration_time read(), keys_expire_impl write() *)
OpMode(op) ==
    IF op \in {"LLEN", "LRANGE", "SCARD", "SMEMBERS", "SISMEMBER", "SSCAN"} \cup TtlOps THEN "r" ELSE "w"


----------------------------------------------------------------------------
(* The closures the single-key handlers run under the container lock:
   processor(cmd, inner) is the new inner and the result. *)

Reverse(s) == [i \in DOMAIN s |-> s[Len(s) + 1 - i]]

RECURSIVE InsertAll(_, _)
InsertAll(set, vs) == IF vs = <<>> THEN set ELSE InsertAll(SetInsert(set, Head(vs)), Tail(vs))

RECURSIVE HashSetAll(_, _)
HashSetAll(h, as) == IF Len(as) < 2 THEN h
                     ELSE HashSetAll(HashInsert(h, as[1], as[2]), Tail(Tail(as)))

(* extract_integer(args.pop_front()) or the default step *)
StepArg(args) == IF args # <<>> /\ args[1].t = "Integer" THEN args[1].int ELSE DefaultStep

(* strings_incrby / strings_decrby *)
IncrBy(inner, delta) ==
    LET p == inner_parse(inner, 0)
    IN IF ~p.ok THEN [inner |-> inner, ret |-> Err("invalid digit found in string")]
       ELSE [inner |-> FormatI64(p.num + delta), ret |-> IntV(p.num + delta)]

(* u8 & u8, u8 | u8, u8 ^ u8 and !u8, bit by bit *)
BitOf(a, i) == (a \div (2 ^ i)) % 2
RECURSIVE Bitwise(_, _, _, _)
Bitwise(operation, a, b, i) ==
    IF i = 8 THEN 0
    ELSE LET bit == IF operation = "And" THEN BitOf(a, i) * BitOf(b, i)
                    ELSE IF operation = "Or" THEN Max2(BitOf(a, i), BitOf(b, i))
                    ELSE (BitOf(a, i) + BitOf(b, i)) % 2
         IN bit * (2 ^ i) + Bitwise(operation, a, b, i + 1)
BitNot(a) == 255 - a

(* Vec::resize(new_len, 0) *)
resize(v, new_len) == [i \in 1..new_len |-> IF i <= Len(v) THEN v[i] ELSE 0]

(* strings.rs: `offset >= 2^32`, where ^ is Rust's exclusive or *)
OffsetLimit == Bitwise("Xor", 2, 32, 0)
(* the cast i as usize *)
as_usize(i) == i % (2 ^ IntBits)
(* mask = 0b1000_0000 >> bit_index *)
BitMask(offset) == 2 ^ (7 - (offset % 8))

strings_setbit(inner, offset, bit) ==
    LET byte_index == offset \div 8
        mask == BitMask(offset)
        cnt == IF byte_index >= Len(inner) THEN resize(inner, 1 + byte_index) ELSE inner
        byte == cnt[byte_index + 1]
        original == Bitwise("And", byte, mask, 0)
    IN [inner |-> [cnt EXCEPT ![byte_index + 1] =
                       IF bit THEN Bitwise("Or", byte, mask, 0)
                       ELSE Bitwise("And", byte, BitNot(mask), 0)],
        ret |-> BoolV(original # 0)]

strings_getbit(inner, offset) ==
    LET byte_index == offset \div 8
    IN [inner |-> inner,
        ret |-> IF byte_index >= Len(inner) THEN BoolV(FALSE)
                ELSE BoolV(Bitwise("And", inner[byte_index + 1], BitMask(offset), 0) # 0)]

(* container.rs: extract_bit, on a Bool or on an Integer 0 or 1 *)
extract_bit(v) == IF v.t = "Bool" THEN v.bool ELSE v.int = 1

(* container.rs: num::cast to usize fails for a negative integer *)
extract_index(i) == IF i < 0 THEN None ELSE Some(i)

(* list.rs: list_trim, on the list and the two extracted integers *)
rotate_left(list, mid) == SubSeq(list, mid + 1, Len(list)) \o SubSeq(list, 1, mid)
truncate(list, len) == SubSeq(list, 1, Min2(len, Len(list)))
list_trim(list, start0, stop0) ==
    LET start == Min2(as_usize(IF start0 < 0 THEN Len(list) + start0 ELSE start0), Len(list))
        stop == Min2(as_usize(IF stop0 < 0 THEN Len(list) + stop0 ELSE stop0), Len(list))
    IN IF start > stop \/ start >= Len(list) THEN <<>>
       ELSE IF start > 0 THEN truncate(rotate_left(list, start), stop + 1 - start)
       ELSE truncate(list, stop + 1)

(* list.rs: the closure of list_range.  end - start is a usize subtraction:
   with end < start it overflows, and VecDeque::with_capacity aborts the
   handler either on the overflow check or on the wrapped capacity *)
list_range(list, start0, stop0) ==
    LET start == Min2(start0, Len(list))
        end == Min2(stop0 + 1, Len(list))
    IN IF end < start THEN [inner |-> list, ret |-> Panicked]
       ELSE [inner |-> list, ret |-> Arr(SubSeq(list, start + 1, end))]

(* set.rs, hash.rs: the closures of set_scan and hash_scan; the MATCH
   patterns are "." and one literal element *)
value_is_match(pattern, v) == pattern \in {Nill, Text("."), v}
ScanOf(elements, start, end, pattern) ==
    SelectSeq(SubSeq(elements, start + 1, Min2(end, Len(elements))),
              LAMBDA v : value_is_match(pattern, v))
set_scan(set, start, max_check, pattern) ==
    LET end == start + max_check
        next == IF start < end /\ end > Len(set) THEN 0 ELSE end
    IN [inner |-> set, ret |-> Arr(<<IntV(next), Arr(ScanOf(set, start, end, pattern))>>)]
hash_scan(hash, start, max_check, pattern) ==
    LET end == start + max_check
        next == IF start >= end THEN start
                ELSE IF end > Len(hash) THEN 0
                ELSE end - 1
        fields == [i \in DOMAIN hash |-> hash[i][1]]
    IN [inner |-> hash, ret |-> Arr(<<IntV(next), Arr(ScanOf(fields, start, end, pattern))>>)]

(* hash.rs: the closure of hash_set_nx: field and value are popped with
   unwrap(), which panics when the argument is not there *)
hash_set_nx(hash, args) ==
    IF Len(args) < 2 THEN [inner |-> hash, ret |-> Panicked]
    ELSE IF FieldIndex(hash, args[1]) = 0
    THEN [inner |-> Append(hash, <<args[1], args[2]>>), ret |-> BoolV(TRUE)]
    ELSE [inner |-> hash, ret |-> BoolV(FALSE)]
(* list.rs: the closure of list_set *)
list_set(list, index, value) ==
    IF index >= Len(list) THEN [inner |-> list, ret |-> Err("Out of index")]
    ELSE [inner |-> [list EXCEPT ![index + 1] = value], ret |-> list[index + 1]]

processor(cmd, inner) ==
    LET op == cmd.op
        args == cmd.args
    IN CASE op = "STRLEN" -> [inner |-> inner, ret |-> IntV(Len(inner))]
         [] op = "APPEND" -> [inner |-> inner \o args[1].buf,
                              ret |-> IntV(Len(inner \o args[1].buf))]
         [] op \in {"INCR", "INCRBY"} -> IncrBy(inner, StepArg(args))
         [] op \in {"DECR", "DECRBY"} -> IncrBy(inner, 0 - StepArg(args))
         [] op = "SETBIT" -> strings_setbit(inner, as_usize(args[1].int), extract_bit(args[2]))
         [] op = "GETBIT" -> strings_getbit(inner, as_usize(args[1].int))
         [] op = "LLEN" -> [inner |-> inner, ret |-> IntV(Len(inner))]
         [] op = "LTRIM" -> [inner |-> list_trim(inner, args[1].int, args[2].int), ret |-> OkV]
         [] op \in {"LPUSH", "LPUSHX"} -> [inner |-> Reverse(args) \o inner,
                                           ret |-> IntV(Len(args) + Len(inner))]
         [] op \in {"RPUSH", "RPUSHX"} -> [inner |-> inner \o args,
                                           ret |-> IntV(Len(args) + Len(inner))]
         [] op = "LRANGE" -> list_range(inner, args[1].int, args[2].int)
         [] op = "SCARD" -> [inner |-> inner, ret |-> IntV(Len(inner))]
         [] op = "SMEMBERS" -> [inner |-> inner, ret |-> Arr(inner)]
         [] op = "SISMEMBER" -> [inner |-> inner,
                                 ret |-> IntV(IF args[1] \in Range(inner) THEN 1 ELSE 0)]
         [] op = "SADD" -> [inner |-> InsertAll(inner, args),
                            ret |-> IntV(Len(InsertAll(inner, args)) - Len(inner))]
         [] op = "SSCAN" -> set_scan(inner, args[1].int, args[2].int,
                                     IF Len(args) >= 3 THEN args[3] ELSE Nill)
         [] op = "HSCAN" -> hash_scan(inner, args[1].int, args[2].int,
                                      IF Len(args) >= 3 THEN args[3] ELSE Nill)
         [] op = "HSETNX" -> hash_set_nx(inner, args)
         [] op = "LSET" -> list_set(inner, args[1].int, args[2])
         [] op = "HLEN" -> [inner |-> inner, ret |-> IntV(Len(inner))]
         [] op = "HGET" -> [inner |-> inner,
                            ret |-> IF IsSome(HashGet(inner, args[1]))
                                    THEN Unwrap(HashGet(inner, args[1])) ELSE Nill]
         [] op = "HSET" -> [inner |-> HashSetAll(inner, args), ret |-> IntV(Len(args) \div 2)]
         [] OTHER -> [inner |-> inner, ret |-> Err("Unimplemented")]

(* set.rs: the closure of set_pop: count times an index is drawn as
   rand::random::<usize>() % set.len(), a division by zero once the set is
   empty, and the element there is swap-removed.  The outcomes of all draws. *)
RECURSIVE set_pop(_, _, _)
set_pop(set, count, remove_items) ==
    IF count = 0 THEN {[inner |-> set, ret |-> Arr(remove_items)]}
    ELSE IF Len(set) = 0 THEN {[inner |-> set, ret |-> Panicked]}
    ELSE UNION { set_pop(SetSwapRemoveIndex(set, index), count - 1, Append(remove_items, set[index]))
                 : index \in 1..Len(set) }
(* the count of SPOP: extract_index of the argument, 1 when that fails *)
PopCount(args) ==
    IF args # <<>> /\ args[1].t = "Integer" /\ IsSome(extract_index(args[1].int)) THEN args[1].int ELSE 1

(* what the closure of the command can make of the container's inner *)
Outcomes(cmd, inner) ==
    IF cmd.op = "SPOP" THEN set_pop(inner, PopCount(cmd.args), <<>>)
    ELSE {processor(cmd, inner)}

----------------------------------------------------------------------------
(* keys.rs: lock_all.  writes: the addresses to write-lock; reads: the
   addresses to read-lock, 0 for an absent key. *)

(* the BTreeMap "locks": an address inserted again replaces the earlier
   action, and the reads are inserted after the writes *)
LockPlanMode(ws, rs, a) == IF a \in Range(rs) THEN "r" ELSE "w"
LockAddresses(ws, rs) == (Range(ws) \cup Range(rs)) \ {KS}

(* the acquisitions, in the order lock_all makes them: ascending address *)
LockOrderAsRequested(ws, rs) ==
    LET first(a) == IF a \in Range(ws) THEN Position(ws, a) ELSE Len(ws) + Position(rs, a)
        RECURSIVE ord(_)
        ord(S) == IF S = {} THEN <<>>
                  ELSE LET a == CHOOSE x \in S : \A y \in S : first(x) <= first(y)
                       IN <<a>> \o ord(S \ {a})
        addrs == ord(LockAddresses(ws, rs))
    IN [i \in DOMAIN addrs |-> <<addrs[i], IF addrs[i] \in Range(rs) THEN "r" ELSE "w">>]
LockOrder(ws, rs) ==
    LET addrs == SeqOfSet(LockAddresses(ws, rs))
    IN [i \in DOMAIN addrs |-> <<addrs[i], LockPlanMode(ws, rs, addrs[i])>>]

NoRepeats(s) == \A i, j \in DOMAIN s : i # j => s[i] # s[j]

(* guard_writes.remove(a).unwrap() / guard_reads.remove(a).unwrap(): each
   guard can be taken out once, and only from the map its action put it in *)
lock_all_unwraps(ws, rs) ==
    /\ NoRepeats(ws)
    /\ \A i \in DOMAIN ws : LockPlanMode(ws, rs, ws[i]) = "w"
    /\ \A i, j \in DOMAIN rs : (i # j /\ rs[i] # KS) => rs[i] # rs[j]

(* the guards lock_all holds when its loop is over: guard_writes and
   guard_reads, keyed by address; a guard is known by the lock it guards *)
WriteGuard(a) == [lock |-> a, mode |-> "w"]
ReadGuard(a) == [lock |-> a, mode |-> "r"]
(* the guards handed back in the order of acquisition *)
lock_all_output_sorted(ws, rs) ==
    LET w == SeqOfSet({a \in LockAddresses(ws, rs) : LockPlanMode(ws, rs, a) = "w"})
        r == SeqOfSet({a \in LockAddresses(ws, rs) : LockPlanMode(ws, rs, a) = "r"})
    IN [writes |-> [i \in DOMAIN w |-> WriteGuard(w[i])],
        reads |-> [j \in DOMAIN rs |-> IF j <= Len(r) THEN Some(ReadGuard(r[j])) ELSE None]]
(* what lock_all returns: output_order_writes and output_order_reads, each
   address replaced by the guard taken out of its map, 0 by None *)
lock_all_output(ws, rs) ==
    LET guard_writes == [a \in {b \in LockAddresses(ws, rs) : LockPlanMode(ws, rs, b) = "w"}
                           |-> WriteGuard(a)]
        guard_reads == [a \in {b \in LockAddresses(ws, rs) : LockPlanMode(ws, rs, b) = "r"}
                          |-> ReadGuard(a)]
    IN [writes |-> [i \in DOMAIN ws |-> guard_writes[ws[i]]],
        reads |-> [j \in DOMAIN rs |-> IF rs[j] = KS THEN None ELSE Some(guard_reads[rs[j]])]]

----------------------------------------------------------------------------
(* The closures the multi-key handlers run with every lock held.
   callback(cmd, ws, rs): ws the write-locked containers and rs the read-locked
   ones (None for an absent key), in request order.  The result is
   [panic, ws, ret]: the write-locked containers afterwards and the result. *)

SetDiff(sets) ==
    LET main == sets[1].inner
        keep(v) == ~\E i \in 2..Len(sets) : v \in Range(sets[i].inner)
        RECURSIVE filt(_)
        filt(s) == IF s = <<>> THEN <<>>
                   ELSE (IF keep(Head(s)) THEN <<Head(s)>> ELSE <<>>) \o filt(Tail(s))
    IN filt(main)

SetInter(sets) ==
    LET main == sets[1].inner
        keep(v) == ~\E i \in 2..Len(sets) : v \notin Range(sets[i].inner)
        RECURSIVE filt(_)
        filt(s) == IF s = <<>> THEN <<>>
                   ELSE (IF keep(Head(s)) THEN <<Head(s)>> ELSE <<>>) \o filt(Tail(s))
    IN filt(main)

RECURSIVE SetUnion(_)
SetUnion(sets) == IF sets = <<>> THEN <<>>
                  ELSE LET rest == SetUnion(SubSeq(sets, 1, Len(sets) - 1))
                       IN InsertAll(rest, sets[Len(sets)].inner)

SetAlgebra(op, sets) ==
    IF op \in {"SDIFF", "SDIFFSTORE"} THEN SetDiff(sets)
    ELSE IF op \in {"SINTER", "SINTERSTORE"} THEN SetInter(sets)
    ELSE SetUnion(sets)

Result(ws, ret) == [panic |-> FALSE, ws |-> ws, ret |-> ret]
Panic(ws) == [panic |-> TRUE, ws |-> ws, ret |-> Panicked]

(* strings.rs: BitOperation::from_str, on the lowercased name *)
from_str(op) ==
    IF op \in {"and", "AND", "And"} THEN Some("And")
    ELSE IF op \in {"or", "OR", "Or"} THEN Some("Or")
    ELSE IF op \in {"xor", "XOR", "Xor"} THEN Some("Xor")
    ELSE IF op \in {"not", "NOT", "Not"} THEN Some("Not")
    ELSE None

(* the for_each over the sources after the first: And over the first min_len
   bytes, Or and Xor over each source's own length *)
RECURSIVE bitop_fold(_, _, _, _)
bitop_fold(operation, dest, cnts, min_len) ==
    IF cnts = <<>> THEN dest
    ELSE IF ~IsSome(Head(cnts)) THEN bitop_fold(operation, dest, Tail(cnts), min_len)
    ELSE LET c == Unwrap(Head(cnts)).inner
             upto == IF operation = "And" THEN min_len ELSE Len(c)
         IN bitop_fold(operation,
                       [i \in DOMAIN dest |-> IF i <= upto THEN Bitwise(operation, dest[i], c[i], 0)
                                              ELSE dest[i]],
                       Tail(cnts), min_len)

strings_bitop_cmn(operation, ws, rs) ==
    LET lens == {IF IsSome(rs[i]) THEN Len(Unwrap(rs[i]).inner) ELSE 0 : i \in DOMAIN rs}
        max_len == IF lens = {} THEN 0 ELSE CHOOSE l \in lens : \A m \in lens : m <= l
        min_len == IF lens = {} THEN 0 ELSE CHOOSE l \in lens : \A m \in lens : l <= m
    IN IF rs = <<>> THEN Result(ws, Err("BITOP <OPERATION> dst src [[src]]"))
       ELSE LET first == resize(IF IsSome(rs[1]) THEN Unwrap(rs[1]).inner ELSE <<>>, max_len)
                inner == IF operation = "And" /\ min_len = 0 THEN first
                         ELSE bitop_fold(operation, first, Tail(rs), min_len)
            IN Result([ws EXCEPT ![1].inner = inner, ![1].expiration_time = None],
                      IntV(Len(inner)))

strings_bitop_not(ws, rs) ==
    LET inner == IF IsSome(rs[1])
                 THEN [i \in DOMAIN Unwrap(rs[1]).inner |-> BitNot(Unwrap(rs[1]).inner[i])]
                 ELSE <<>>
    IN Result([ws EXCEPT ![1].inner = inner, ![1].expiration_time = None], IntV(Len(inner)))

(* set.rs: the closure of set_move: sets holds the guards in the order of the
   request, source first *)
set_move_as_locked(sets, member) ==
    IF member \notin Range(sets[2].inner) THEN Result(sets, IntV(0))
    ELSE Result([sets EXCEPT ![2].inner = SetRemove(@, member),
                             ![1].inner = SetInsert(@, member)], IntV(1))
set_move(sets, member) ==
    IF member \notin Range(sets[1].inner) THEN Result(sets, IntV(0))
    ELSE Result([sets EXCEPT ![1].inner = SetRemove(@, member),
                             ![2].inner = SetInsert(@, member)], IntV(1))

(* strings.rs: the closure of strings_mset: every container gets its value
   and loses its expiration *)
strings_mset_first(cnts, values) ==
    Result([i \in DOMAIN cnts |-> IF i = 1 THEN [cnts[i] EXCEPT !.inner = values[i].buf,
                                                                !.expiration_time = None]
                                  ELSE cnts[i]], OkV)
strings_mset(cnts, values) ==
    Result([i \in DOMAIN cnts |-> [cnts[i] EXCEPT !.inner = values[i].buf,
                                                  !.expiration_time = None]], OkV)

callback(cmd, ws, rs) ==
    LET op == cmd.op
        args == cmd.args
    IN CASE op = "SMOVE" -> set_move(ws, args[1])
         [] op \in {"SDIFF", "SINTER", "SUNION"} -> Result(ws, Arr(SetAlgebra(op, ws)))
         [] op \in {"SDIFFSTORE", "SINTERSTORE", "SUNIONSTORE"} ->
                (* sets.get(0).unwrap() on the sources, for the diff and the inter *)
                IF Len(ws) = 1 /\ op # "SUNIONSTORE" THEN Panic(ws)
                ELSE LET tmp == SetAlgebra(op, Tail(ws))
                     IN Result([ws EXCEPT ![1].inner = tmp, ![1].expiration_time = None],
                               IntV(Len(tmp)))
         [] op = "GET" ->
                Result(ws, IF IsSome(rs[1]) THEN Buf(Unwrap(rs[1]).inner) ELSE Nill)
         [] op = "GETSET" ->
                Result([ws EXCEPT ![1].inner = args[1].buf, ![1].expiration_time = None],
                       Buf(ws[1].inner))
         [] op = "MGET" ->
                Result(ws, Arr([i \in DOMAIN rs |->
                                  IF IsSome(rs[i]) THEN Buf(Unwrap(rs[i]).inner) ELSE Nill]))
         [] op = "MSET" -> strings_mset(ws, args)
         [] op = "BITOP" ->
                IF Unwrap(from_str(args[1].text)) = "Not" THEN strings_bitop_not(ws, rs)
                ELSE strings_bitop_cmn(Unwrap(from_str(args[1].text)), ws, rs)
         [] OTHER -> Result(ws, Err("Unimplemented"))


----------------------------------------------------------------------------
(* strings.rs: strings_set.  The options are read before any lock is taken. *)

KEEPTTL == <<75, 69, 69, 80, 84, 84, 76>>
XX == <<88, 88>>
NX == <<78, 88>>
EX == <<69, 88>>
PX == <<80, 88>>

(* container.rs: extract_unsigned_integer is the cast i as u64 *)
extract_unsigned_integer(i) == i % (2 ^ IntBits)
(* the last second a SystemTime holds: its seconds are an i64 *)
MaxSecs == 2 ^ (IntBits - 1) - 1
(* a Duration: its whole seconds, and its length on the clock *)
from_secs(n) == [secs |-> n, ticks |-> n * SecTicks]
from_millis(n) == [secs |-> n \div MillisPerSec, ticks |-> n * MilliTicks]
(* SystemTime + Duration is checked_add(..).expect(..): None is the panic *)
checked_add(tm, d) ==
    IF (tm \div SecTicks) + d.secs > MaxSecs THEN None ELSE Some(tm + d.ticks)

NoOptions == [keepttl |-> FALSE, expire |-> None, set_if_exists |-> None, err |-> None]

(* the while-let loop: it ends at the first argument that is not a buffer *)
RECURSIVE strings_set_options(_, _, _)
strings_set_options(args, clock, o) ==
    IF args = <<>> \/ Head(args).t # "Buffer" THEN o
    ELSE LET subcmd == to_uppercase(Head(args).buf)
             rest == Tail(args)
             n == extract_unsigned_integer(rest[1].int)
             tp == checked_add(clock, IF subcmd = EX THEN from_secs(n) ELSE from_millis(n))
         IN IF subcmd = KEEPTTL THEN strings_set_options(rest, clock, [o EXCEPT !.keepttl = TRUE])
            ELSE IF subcmd = XX
            THEN strings_set_options(rest, clock, [o EXCEPT !.set_if_exists = Some(TRUE)])
            ELSE IF subcmd = NX
            THEN strings_set_options(rest, clock, [o EXCEPT !.set_if_exists = Some(FALSE)])
            ELSE IF subcmd \in {EX, PX}
            THEN (IF rest = <<>> THEN [o EXCEPT !.err = Some(Err("Not enough arguments"))]
                  ELSE IF rest[1].t # "Integer"
                  THEN [o EXCEPT !.err = Some(Err("Unexpected index type"))]
                  ELSE IF ~IsSome(tp) THEN [o EXCEPT !.err = Some(Panicked)]
                  ELSE strings_set_options(Tail(rest), clock, [o EXCEPT !.expire = tp]))
            ELSE [o EXCEPT !.err = Some(Err("Unexpected argument"))]

SetOptions(cmd, clock) == strings_set_options(Tail(cmd.args), clock, NoOptions)

(* the container strings_set builds: a new one, whatever KEEPTTL says *)
strings_set_container(cmd, tp) ==
    [kind |-> "string", inner |-> cmd.args[1].buf, expiration_time |-> tp]

(* the write made whatever the precondition *)
strings_set_always(cs, key, ptr, set_if_exists) == [cs |-> MapInsert(cs, key, ptr), ret |-> OkV]
strings_set(cs, key, ptr, set_if_exists) ==
    LET occupied == IsSome(MapGet(cs, key))
    IN IF (set_if_exists = None \/ set_if_exists = Some(FALSE)) /\ ~occupied
       THEN [cs |-> MapInsert(cs, key, ptr), ret |-> OkV]
       ELSE IF (set_if_exists = None \/ set_if_exists = Some(TRUE)) /\ occupied
       THEN [cs |-> MapInsert(cs, key, ptr), ret |-> OkV]
       ELSE [cs |-> cs, ret |-> Nill]

(* the insertion made whether the key is there or not *)
strings_setnx_always(cs, key, ptr) == [cs |-> MapInsert(cs, key, ptr), ret |-> BoolV(TRUE)]
(* strings.rs: strings_setnx *)
strings_setnx(cs, key, ptr) ==
    IF IsSome(MapGet(cs, key)) THEN [cs |-> cs, ret |-> BoolV(FALSE)]
    ELSE [cs |-> MapInsert(cs, key, ptr), ret |-> BoolV(TRUE)]

(* keys.rs: keys_del and keys_exists: one pass over the keys *)
RECURSIVE keys_del(_, _, _)
keys_del(cs, keys, removed_count) ==
    IF keys = <<>> THEN [cs |-> cs, ret |-> IntV(removed_count)]
    ELSE keys_del(MapRemove(cs, Head(keys)), Tail(keys),
                  removed_count + (IF IsSome(MapGet(cs, Head(keys))) THEN 1 ELSE 0))

RECURSIVE keys_exists(_, _)
keys_exists(cs, keys) ==
    IF keys = <<>> THEN 0
    ELSE (IF IsSome(MapGet(cs, Head(keys))) THEN 1 ELSE 0) + keys_exists(cs, Tail(keys))

(* what execute answers before any lock is taken: an argument the handler
   rejects, or a name it does not know (lib.rs) *)
TimedOps == {"EXPIRE", "PEXPIRE", "EXPIREAT", "PEXPIREAT", "SETEX", "PSETEX"}
(* the timepoint the handler computes before it looks at the keyspace *)
HandlerTimepoint(cmd, clock) ==
    LET op == cmd.op
        n == extract_unsigned_integer(cmd.args[1].int)
    IN IF op \in {"EXPIRE", "SETEX"} THEN checked_add(clock, from_secs(n))
       ELSE IF op \in {"PEXPIRE", "PSETEX"} THEN checked_add(clock, from_millis(n))
       ELSE IF op = "EXPIREAT" THEN checked_add(0, from_secs(n))
       ELSE checked_add(0, from_millis(n))

(* lib.rs: the names execute answers with self.unimplemented() *)
UnimplementedOps == {"DUMP", "PERSIST"}

(* container.rs: extract, extract_key, extract_index as hash_set_nx, list_set
   and set_move call them before they take a lock: the first argument that
   is missing or of the wrong type ends the handler with an Err *)
ArgumentError(cmd) ==
    LET args == cmd.args
    IN IF cmd.keys = <<>> THEN Some(Err("Not enough arguments"))
       ELSE IF cmd.op = "LSET"
       THEN (IF args = <<>> THEN Some(Err("Not enough arguments"))
             ELSE IF args[1].t # "Integer" THEN Some(Err("Unexpected index type"))
             ELSE IF ~IsSome(extract_index(args[1].int)) THEN Some(Err("Index is out of range"))
             ELSE IF Len(args) < 2 THEN Some(Err("Not enough arguments"))
             ELSE None)
       ELSE IF cmd.op = "SMOVE"
       THEN (IF Len(cmd.keys) < 2 \/ args = <<>> THEN Some(Err("Not enough arguments")) ELSE None)
       ELSE None

EarlyError(cmd) ==
    IF cmd.op \in {"HSETNX", "LSET", "SMOVE"} THEN ArgumentError(cmd)
    ELSE IF cmd.op = "SET" THEN SetOptions(cmd, now).err
    ELSE IF cmd.op \in TimedOps
    THEN (IF IsSome(HandlerTimepoint(cmd, now)) THEN None ELSE Some(Panicked))
    ELSE IF cmd.op \in {"SETBIT", "GETBIT"}
    THEN (IF as_usize(cmd.args[1].int) >= OffsetLimit
          THEN Some(Err("offset is out of range [0; 2^32)")) ELSE None)
    ELSE IF cmd.op \in {"LRANGE", "SSCAN", "HSCAN"}
    THEN (IF \E i \in 1..2 : ~IsSome(extract_index(cmd.args[i].int))
          THEN Some(Err("Index is out of range")) ELSE None)
    ELSE IF cmd.op = "BITOP"
    THEN (IF IsSome(from_str(cmd.args[1].text)) THEN None ELSE Some(Err("Unsupported operation")))
    ELSE IF cmd.op \in UnimplementedOps THEN Some(Err("Unimplemented"))
    ELSE IF cmd.op \in SingleOps \cup MultiOps \cup KsOps \cup {"RENAME", "SCAN", "TYPE"} THEN None
    ELSE Some(Err("Unsupported command"))


----------------------------------------------------------------------------
(* Tasks.  A connection (main.rs: command_loop_executor) executes one command
   at a time; a reaper is the task the awaker spawns. *)

IdleTask == [pc |-> "idle", cmd |-> NoCmd, want |-> <<>>, hs |-> <<>>, rs |-> <<>>,
             i |-> 0, acc |-> <<>>, ret |-> NoRet, tp |-> None, pend |-> {}]
FreeReaper == [IdleTask EXCEPT !.pc = "free"]

(* lib.rs: the end of execute: Ok(r) => r, Err(err) => Value::Error(err) *)
execute_result_as_is(result) == result
execute_result(result) == IF result.t = "Err" THEN ErrV(result.msg) ELSE result
(* the handler returned: execute returns the Value to the connection *)
Finished(tk, v) == [IdleTask EXCEPT !.cmd = tk.cmd, !.ret = execute_result(v)]
(* the handler panicked: its guards are dropped, the connection's task ends *)
Dead(tk) == [IdleTask EXCEPT !.pc = "dead", !.cmd = tk.cmd, !.ret = Panicked]

SetupClient == "c1"

Snapshot == [containers |-> containers, heap |-> heap, expires_queue |-> expires_queue]

(* the timepoint a handler that sets an expiration works with *)
Timepoint(cmd) ==
    IF cmd.op = "SET" THEN SetOptions(cmd, now).expire
    ELSE IF cmd.op \in TimedOps THEN HandlerTimepoint(cmd, now)
    ELSE None

(* lib.rs: execute matches the upper-cased name of the command against the
   names of the handlers; the names modelled here are GET, DEL, LLEN, TTL and
   DUMP.  A command given by Cmd carries the matched name already. *)
CommandNames ==
    { <<<<71, 69, 84>>, "GET">>, <<<<68, 69, 76>>, "DEL">>, <<<<76, 76, 69, 78>>, "LLEN">>,
      <<<<84, 84, 76>>, "TTL">>, <<<<68, 85, 77, 80>>, "DUMP">> }
Named(name, keys, args) == [op |-> "", keys |-> keys, args |-> args, name |-> name]
MatchOf(u) == IF \E p \in CommandNames : p[1] = u
              THEN (CHOOSE p \in CommandNames : p[1] = u)[2]
              ELSE "_"
command_match_exact(name) == MatchOf(name)
command_match(name) == MatchOf(to_uppercase(name))
execute(command) ==
    IF "name" \in DOMAIN command THEN [command EXCEPT !.op = command_match(command.name)]
    ELSE command

(* where each handler first waits *)
StartTask(cmd) ==
    LET op == cmd.op
        at(pc, want) == [IdleTask EXCEPT !.pc = pc, !.cmd = cmd, !.want = want,
                                         !.tp = Timepoint(cmd)]
    IN IF IsSome(EarlyError(cmd))
       THEN [IdleTask EXCEPT !.pc = "early", !.cmd = cmd, !.ret = Unwrap(EarlyError(cmd))]
       ELSE IF op \in SingleOps THEN at("try_get", WantKs("r"))
       ELSE IF op \in MultiOps THEN at("get_containers", WantKs("w"))
       ELSE IF op \in KsWriteOps THEN at("ks_op", WantKs("w"))
       ELSE IF op \in KsReadOps THEN at("ks_op", WantKs("r"))
       ELSE IF op = "RENAME" THEN at("rename", WantKs("w"))
       ELSE IF op = "TYPE" THEN at("try_get_containers", WantKs("r"))
       ELSE at("scan", WantKs("r"))

(* the connection reads its next command and calls execute *)
Begin(t) ==
    /\ t \in Clients
    /\ task[t].pc = "idle"
    /\ IF setup # <<>> THEN t = SetupClient ELSE todo[t] # <<>>
    /\ task' = [task EXCEPT ![t] = StartTask(execute(IF setup # <<>> THEN Head(setup) ELSE Head(todo[t])))]
    /\ todo' = IF setup # <<>> THEN todo ELSE [todo EXCEPT ![t] = Tail(@)]
    /\ pre' = [pre EXCEPT ![t] = Snapshot]
    /\ UNCHANGED <<containers, heap, locks, expires_queue, now, setup, hist>>

(* what a step of task t adds to the record of completed commands *)
Completes(t) == task[t].pc # "idle" /\ task'[t].pc \in {"idle", "dead"}
Observe(t) ==
    /\ hist' = IF t \in Clients /\ Completes(t) /\ setup = <<>>
               THEN [hist EXCEPT ![t] = Append(@, [cmd |-> task'[t].cmd, ret |-> task'[t].ret])]
               ELSE hist
    /\ setup' = IF t \in Clients /\ Completes(t) /\ setup # <<>> THEN Tail(setup) ELSE setup
    /\ UNCHANGED <<todo, pre, now>>

(* the lock is not free for the task: it joins the lock's queue *)
Block(t) ==
    /\ task[t].want # <<>>
    /\ ~InQueue(locks[task[t].want[1]], t)
    /\ ~CanAcquire(t)
    /\ locks' = [locks EXCEPT ![task[t].want[1]].queue = Append(@, <<t, task[t].want[2]>>)]
    /\ UNCHANGED <<containers, heap, expires_queue, now, task, setup, todo, hist, pre>>

----------------------------------------------------------------------------
(* keys.rs: try_get_container, as the single-key handlers call it *)

MissingResult(op) ==
    IF op \in TtlOps THEN IntV(-2)
    ELSE IF op \in ExpireOps THEN BoolV(FALSE)
    ELSE Nill

try_get_container(t) ==
    LET tk == task[t]
        op == tk.cmd.op
        c == MapGet(containers, tk.cmd.keys[1])
    IN /\ tk.pc = "try_get"
       /\ CanAcquire(t)
       /\ locks' = Pass(locks, t, KS)
       /\ task' = [task EXCEPT ![t] =
                     IF IsSome(c)
                     THEN [tk EXCEPT !.pc = "lock", !.hs = <<Unwrap(c)>>,
                                     !.want = <<Unwrap(c), OpMode(op)>>]
                     ELSE IF op \in CreateLockOps
                     THEN [tk EXCEPT !.pc = "create", !.want = WantKs("w")]
                     ELSE Finished(tk, MissingResult(op))]
       /\ UNCHANGED <<containers, heap, expires_queue>>

(* entry(key).or_insert_with(factory), with ptr the container the factory would make *)
or_insert_always(cs, key, ptr) == MapInsert(cs, key, ptr)
or_insert_with(cs, key, ptr) ==
    IF IsSome(MapGet(cs, key)) THEN cs ELSE MapInsert(cs, key, ptr)

(* keys.rs: get_container, the None arm: the key is looked up again under the
   write lock and created only if it is still missing *)
get_container(t) ==
    LET tk == task[t]
        key == tk.cmd.keys[1]
        free == FreeHandles(containers, task)
    IN /\ tk.pc = "create"
       /\ CanAcquire(t)
       /\ free # {}
       /\ \E new \in (IF IsSome(MapGet(containers, key)) THEN {CHOOSE h \in free : TRUE} ELSE free) :
            LET cs == or_insert_with(containers, key, new)
                ptr == Unwrap(MapGet(cs, key))
            IN /\ containers' = cs
               /\ task' = [task EXCEPT ![t] = [tk EXCEPT !.pc = "lock", !.hs = <<ptr>>,
                                                         !.want = <<ptr, OpMode(tk.cmd.op)>>]]
               /\ heap' = Sweep(IF ptr = new
                                THEN [heap EXCEPT ![new] = NewContainer(OpKind(tk.cmd.op))]
                                ELSE heap, cs, task')
       /\ locks' = Pass(locks, t, KS)
       /\ UNCHANGED expires_queue

(* keys.rs: keys_expiration_time, with dur_to_i64 of keys_ttl / keys_pttl *)
as_secs(ttl) == ttl \div SecTicks
as_millis(ttl) == ttl \div MilliTicks
(* the difference taken with its sign *)
duration_since_signed(tm, earlier) == Some(tm - earlier)
duration_since(tm, earlier) == IF tm >= earlier THEN Some(tm - earlier) ELSE None
keys_expiration_time(op, c) ==
    IF ~IsSome(get_expiration_time(c)) THEN IntV(-1)
    ELSE LET d == duration_since(Unwrap(get_expiration_time(c)), now)
             ttl == IF IsSome(d) THEN Unwrap(d) ELSE 0
         IN IntV(IF op = "PTTL" THEN as_millis(ttl) ELSE as_secs(ttl))

(* The handler has its container and takes the container's lock; the closure
   runs and the guard is dropped (strings_lock ... hash_lock_mut,
   list_try_lock_mut, keys_expiration_time, keys_expire_impl,
   strings_setex_impl). *)
lock_container(t) ==
    LET tk == task[t]
        op == tk.cmd.op
        h == tk.hs[1]
        c == heap[h]
    IN /\ tk.pc = "lock"
       /\ CanAcquire(t)
       /\ IF op \in TtlOps
          THEN /\ task' = [task EXCEPT ![t] = Finished(tk, keys_expiration_time(op, c))]
               /\ heap' = Sweep(heap, containers, task')
               /\ locks' = Pass(locks, t, h)
          ELSE IF op \in ExpireOps
          THEN /\ task' = [task EXCEPT ![t] = [tk EXCEPT !.pc = "expire_key_at", !.want = <<>>]]
               /\ heap' = [heap EXCEPT ![h].expiration_time = tk.tp]
               /\ locks' = Pass(locks, t, h)
          ELSE IF OpKind(op) # c.kind
          THEN /\ task' = [task EXCEPT ![t] = Finished(tk, Err("Unexpected container type"))]
               /\ heap' = Sweep(heap, containers, task')
               /\ locks' = Pass(locks, t, h)
          ELSE IF op \in {"SETEX", "PSETEX"}
          THEN (* drop(cnt) drops the reference, not the guard: the lock stays held *)
               /\ task' = [task EXCEPT ![t] = [tk EXCEPT !.pc = "expire_key_at", !.want = <<>>]]
               /\ heap' = [heap EXCEPT ![h].inner = tk.cmd.args[2].buf,
                                       ![h].expiration_time = tk.tp]
               /\ locks' = Acquire(locks, t, h, "w")
          ELSE \E r \in Outcomes(tk.cmd, c.inner) :
               /\ task' = [task EXCEPT ![t] = IF r.ret = Panicked THEN Dead(tk)
                                               ELSE Finished(tk, r.ret)]
               /\ heap' = Sweep([heap EXCEPT ![h].inner = r.inner], containers, task')
               /\ locks' = Pass(locks, t, h)
       /\ UNCHANGED <<containers, expires_queue>>

----------------------------------------------------------------------------
(* expire.rs: Storage::expire_key_at, and the awaker of main.rs: the entry
   joins the queue, then the awaker spawns a task that sleeps until a
   millisecond after the timepoint and runs keys_check_expirations *)

ExpireController_expire_key_at(q, key, timepoint) == q \cup {<<timepoint, key>>}

(* the announcement made for the first key whatever the command *)
ExpireKeyOld(cmd) == cmd.keys[1]
ExpireKey(cmd) == IF cmd.op = "RENAME" THEN cmd.keys[2] ELSE cmd.keys[1]
ExpireResult(op) == IF op \in ExpireOps THEN BoolV(TRUE) ELSE OkV

FreeReapers == {r \in Reapers : task[r].pc = "free"}

(* the awaker called with the timepoint one millisecond too early to matter:
   the spawned task takes no delay *)
awaker_at_once(timepoint) == 0
(* main.rs: the awaker's task waits until a millisecond after the timepoint *)
awaker(timepoint) == timepoint + AwakerMillis * MilliTicks

(* the controller's mutex is taken, the entry joins the queue, the mutex is
   dropped; the awaker's mutex is next *)
expire_key_at(t) ==
    LET tk == task[t]
        timepoint == Unwrap(tk.tp)
    IN /\ tk.pc = "expire_key_at"
       /\ expires_queue' = ExpireController_expire_key_at(expires_queue, ExpireKey(tk.cmd), timepoint)
       /\ task' = [task EXCEPT ![t] = [tk EXCEPT !.pc = "awaker"]]
       /\ UNCHANGED <<containers, heap, locks>>

(* the awaker's mutex is taken and the awaker called with the timepoint: a
   task is spawned that sleeps and then runs keys_check_expirations; the
   handler returns.  The sleeping task remembers the awaker's argument. *)
invoke_awaker(t) ==
    LET tk == task[t]
        timepoint == Unwrap(tk.tp)
    IN /\ tk.pc = "awaker"
       /\ FreeReapers # {}
       /\ LET r == CHOOSE x \in FreeReapers : TRUE
          IN task' = [task EXCEPT ![t] = Finished(tk, ExpireResult(tk.cmd.op)),
                                  ![r] = [FreeReaper EXCEPT !.pc = "sleep",
                                            !.cmd = Cmd("awaker", <<>>, <<timepoint>>),
                                            !.tp = Some(awaker(timepoint))]]
       /\ locks' = ReleaseAll(locks, t)
       /\ heap' = Sweep(heap, containers, task')
       /\ UNCHANGED <<containers, expires_queue>>


----------------------------------------------------------------------------
(* The multi-key handlers: set_lock_containers (set.rs) and strings_locks
   (strings.rs).  The first keys of the command are write keys, the rest read
   keys. *)

NWrites(cmd) ==
    IF cmd.op \in SetMultiOps \cup {"MSET"} THEN Len(cmd.keys)
    ELSE IF cmd.op \in {"GETSET", "BITOP"} THEN 1
    ELSE 0
WriteKeys(cmd) == SubSeq(cmd.keys, 1, NWrites(cmd))
ReadKeys(cmd) == SubSeq(cmd.keys, NWrites(cmd) + 1, Len(cmd.keys))

(* lock_all begins: the plan is made, the first acquisition is next *)
StartLockAll(tk, ws, rs) ==
    LET order == LockOrder(ws, rs)
    IN IF order = <<>>
       THEN [tk EXCEPT !.pc = "locked", !.hs = ws, !.rs = rs, !.acc = <<>>, !.want = <<>>]
       ELSE [tk EXCEPT !.pc = "lock_all", !.hs = ws, !.rs = rs, !.acc = order,
                       !.want = order[1]]

(* keys.rs: get_containers: under the keyspace write lock each key is looked
   up and, when missing, created; alloc gives the missing keys their addresses *)
RECURSIVE GetContainersFrom(_, _, _, _)
GetContainersFrom(cs, keys, alloc, out) ==
    IF keys = <<>> THEN [cs |-> cs, out |-> out]
    ELSE LET key == Head(keys)
             c == MapGet(cs, key)
         IN IF IsSome(c) THEN GetContainersFrom(cs, Tail(keys), alloc, Append(out, Unwrap(c)))
            ELSE GetContainersFrom(MapInsert(cs, key, alloc[key]), Tail(keys), alloc,
                                   Append(out, alloc[key]))

get_containers(t) ==
    /\ task[t].pc = "get_containers"
    /\ CanAcquire(t)
    /\ \E tk \in {task[t]} :
       \E free \in {FreeHandles(containers, task)} :
       \E keys \in {WriteKeys(tk.cmd)} :
       \E missing \in {{k \in Range(keys) : ~IsSome(MapGet(containers, k))}} :
       \E alloc \in [missing -> free] :
            /\ \A k1, k2 \in missing : k1 # k2 => alloc[k1] # alloc[k2]
            /\ \E got \in {GetContainersFrom(containers, keys, alloc, <<>>)} :
               \E made \in {{alloc[k] : k \in missing}} :
                  /\ containers' = got.cs
                  /\ task' = [task EXCEPT ![t] =
                                IF tk.cmd.op \in StringMultiOps
                                THEN [tk EXCEPT !.pc = "try_get_containers", !.hs = got.out,
                                                !.want = WantKs("r")]
                                ELSE StartLockAll(tk, got.out, <<>>)]
                  /\ heap' = [h \in Handles |-> IF h \in made THEN NewContainer(OpKind(tk.cmd.op))
                                                ELSE heap[h]]
    /\ locks' = Pass(locks, t, KS)
    /\ UNCHANGED expires_queue

(* keys.rs: keys_type: the types are read one container at a time; an absent
   key needs no lock *)
TypeAdvance(tk, rs, i, acc) ==
    LET RECURSIVE go(_, _)
        go(j, out) ==
            IF j > Len(rs)
            THEN Finished(tk, IF Len(out) = 0 THEN Err("TYPE key")
                              ELSE IF Len(out) = 1 THEN out[1] ELSE Arr(out))
            ELSE IF rs[j] = KS THEN go(j + 1, Append(out, Nill))
            ELSE [tk EXCEPT !.pc = "type_lock", !.rs = rs, !.i = j, !.acc = out,
                            !.want = <<rs[j], "r">>]
    IN go(i, acc)

(* keys.rs: try_get_containers (strings_locks' read keys, keys_type's keys) *)
try_get_containers(t) ==
    LET tk == task[t]
        keys == IF tk.cmd.op = "TYPE" THEN tk.cmd.keys ELSE ReadKeys(tk.cmd)
        rs == [i \in DOMAIN keys |-> IF IsSome(MapGet(containers, keys[i]))
                                     THEN Unwrap(MapGet(containers, keys[i])) ELSE KS]
    IN /\ tk.pc = "try_get_containers"
       /\ CanAcquire(t)
       /\ locks' = Pass(locks, t, KS)
       /\ task' = [task EXCEPT ![t] = IF tk.cmd.op = "TYPE" THEN TypeAdvance(tk, rs, 1, <<>>)
                                      ELSE StartLockAll(tk, tk.hs, rs)]
       /\ UNCHANGED <<containers, heap, expires_queue>>

keys_type_lock(t) ==
    LET tk == task[t]
        h == tk.rs[tk.i]
    IN /\ tk.pc = "type_lock"
       /\ CanAcquire(t)
       /\ locks' = Pass(locks, t, h)
       /\ task' = [task EXCEPT ![t] =
                     TypeAdvance(tk, tk.rs, tk.i + 1,
                                 Append(tk.acc, Text(type_to_string(heap[h]))))]
       /\ heap' = Sweep(heap, containers, task')
       /\ UNCHANGED <<containers, expires_queue>>

(* lock_all's loop: one acquisition; the guards taken so far stay held *)
lock_all(t) ==
    LET tk == task[t]
        rest == Tail(tk.acc)
    IN /\ tk.pc = "lock_all"
       /\ CanAcquire(t)
       /\ locks' = Acquire(locks, t, tk.want[1], tk.want[2])
       /\ task' = [task EXCEPT ![t] =
                     IF rest = <<>> THEN [tk EXCEPT !.pc = "locked", !.acc = <<>>, !.want = <<>>]
                     ELSE [tk EXCEPT !.acc = rest, !.want = rest[1]]]
       /\ UNCHANGED <<containers, heap, expires_queue>>

(* set_lock_containers / strings_locks after the acquisitions: lock_all hands
   the guards back in request order, the containers are unwrapped, the
   callback runs, the guards are dropped.  strings_getset unwraps the Result. *)
AllOfKind(cs, kind) == \A i \in DOMAIN cs : cs[i].kind = kind

locked(t) ==
    LET tk == task[t]
        g == lock_all_output(tk.hs, tk.rs)
        ws == [i \in DOMAIN g.writes |-> heap[g.writes[i].lock]]
        rs == [i \in DOMAIN g.reads |-> IF IsSome(g.reads[i]) THEN Some(heap[Unwrap(g.reads[i]).lock])
                                         ELSE None]
        kind == OpKind(tk.cmd.op)
        typed == /\ AllOfKind(ws, kind)
                 /\ \A i \in DOMAIN rs : IsSome(rs[i]) => Unwrap(rs[i]).kind = kind
        r == callback(tk.cmd, ws, rs)
    IN /\ tk.pc = "locked"
       /\ locks' = ReleaseAll(locks, t)
       /\ task' = [task EXCEPT ![t] =
                     IF ~lock_all_unwraps(tk.hs, tk.rs) THEN Dead(tk)
                     ELSE IF ~typed
                     THEN (IF tk.cmd.op = "GETSET" THEN Dead(tk) ELSE Finished(tk, Err("Unexpected container type")))
                     ELSE IF r.panic THEN Dead(tk)
                     ELSE Finished(tk, r.ret)]
       /\ heap' = Sweep(IF lock_all_unwraps(tk.hs, tk.rs) /\ typed /\ ~r.panic
                        THEN [h \in Handles |-> IF \E i \in DOMAIN g.writes : g.writes[i].lock = h
                                                THEN r.ws[CHOOSE i \in DOMAIN g.writes : g.writes[i].lock = h]
                                                ELSE heap[h]]
                        ELSE heap, containers, task')
       /\ UNCHANGED <<containers, expires_queue>>


----------------------------------------------------------------------------
(* Regex::is_match on a key, for the patterns "." and one literal letter,
   the keys being one letter long; Nill stands for no pattern *)
is_match(pattern, key) == pattern \in {Nill, Text("."), Text(key)}
(* keys.rs: keys_keys: the keys the pattern matches, in the order of the map *)
keys_keys(cs, pattern) ==
    Arr(SelectSeq([i \in DOMAIN cs |-> Text(cs[i].key)], LAMBDA k : is_match(pattern, k.text)))

(* The handlers that work under the keyspace lock alone: SET, SETNX, DEL,
   EXISTS, KEYS *)
ks_op(t) ==
    LET tk == task[t]
        op == tk.cmd.op
        key == tk.cmd.keys[1]
        free == FreeHandles(containers, task)
    IN /\ tk.pc = "ks_op"
       /\ CanAcquire(t)
       /\ locks' = Pass(locks, t, KS)
       /\ IF op \in {"SET", "SETNX"}
          THEN /\ free # {}
               /\ \E new \in free :
                    LET r == IF op = "SET"
                             THEN strings_set(containers, key, new, SetOptions(tk.cmd, 0).set_if_exists)
                             ELSE strings_setnx(containers, key, new)
                        cnt == IF op = "SET" THEN strings_set_container(tk.cmd, tk.tp)
                               ELSE strings_set_container(tk.cmd, None)
                    IN /\ containers' = r.cs
                       /\ task' = [task EXCEPT ![t] =
                                     IF r.ret = OkV /\ IsSome(tk.tp)
                                     THEN [tk EXCEPT !.pc = "expire_key_at", !.want = <<>>]
                                     ELSE Finished(tk, r.ret)]
                       /\ heap' = Sweep([heap EXCEPT ![new] = cnt], r.cs, task')
          ELSE IF op = "DEL"
          THEN /\ containers' = keys_del(containers, tk.cmd.keys, 0).cs
               /\ task' = [task EXCEPT ![t] = Finished(tk, keys_del(containers, tk.cmd.keys, 0).ret)]
               /\ heap' = Sweep(heap, containers', task')
          ELSE IF op = "KEYS"
          THEN /\ task' = [task EXCEPT ![t] = Finished(tk, keys_keys(containers, tk.cmd.args[1]))]
               /\ UNCHANGED <<containers, heap>>
          ELSE /\ task' = [task EXCEPT ![t] = Finished(tk, IntV(keys_exists(containers, tk.cmd.keys)))]
               /\ UNCHANGED <<containers, heap>>
       /\ UNCHANGED expires_queue

early_return(t) ==
    LET tk == task[t]
    IN /\ tk.pc = "early"
       /\ task' = [task EXCEPT ![t] = IF tk.ret = Panicked THEN Dead(tk) ELSE Finished(tk, tk.ret)]
       /\ UNCHANGED <<containers, heap, locks, expires_queue>>


----------------------------------------------------------------------------
(* keys.rs: keys_rename.  The keyspace write guard is alive from the removal
   to the insertion, across key_expiration's read of the container. *)

keys_rename_remove(t) ==
    LET tk == task[t]
        cnt == MapGet(containers, tk.cmd.keys[1])
    IN /\ tk.pc = "rename"
       /\ CanAcquire(t)
       /\ IF IsSome(cnt)
          THEN /\ containers' = MapRemove(containers, tk.cmd.keys[1])
               /\ locks' = Acquire(locks, t, KS, "w")
               /\ task' = [task EXCEPT ![t] = [tk EXCEPT !.pc = "key_expiration",
                                                         !.hs = <<Unwrap(cnt)>>,
                                                         !.want = <<Unwrap(cnt), "r">>]]
          ELSE /\ containers' = containers
               /\ locks' = Pass(locks, t, KS)
               /\ task' = [task EXCEPT ![t] = Finished(tk, Err("key not found"))]
       /\ UNCHANGED <<heap, expires_queue>>

key_expiration(t) ==
    LET tk == task[t]
        cnt == tk.hs[1]
        timepoint == get_expiration_time(heap[cnt])
    IN /\ tk.pc = "key_expiration"
       /\ CanAcquire(t)
       /\ containers' = MapInsert(containers, tk.cmd.keys[2], cnt)
       /\ locks' = Release(Pass(locks, t, cnt), t, KS)
       /\ task' = [task EXCEPT ![t] =
                     IF IsSome(timepoint)
                     THEN [tk EXCEPT !.pc = "expire_key_at", !.want = <<>>, !.tp = timepoint]
                     ELSE Finished(tk, OkV)]
       /\ heap' = Sweep(heap, containers', task')
       /\ UNCHANGED expires_queue

----------------------------------------------------------------------------
(* keys.rs: keys_scan.  cmd.args = <<start, max_check, key_type>>, key_type a
   type name or Nill.  The keyspace read guard is alive through the loop; with
   a key_type each container visited is read-locked in turn. *)

ScanStart(cmd) == cmd.args[1].int
(* the end taken one position short *)
ScanEndShort(cmd) == cmd.args[1].int + cmd.args[2].int - 1
ScanEnd(cmd) == cmd.args[1].int + cmd.args[2].int
ScanResult(next, keys) == Arr(<<IntV(next), Arr([i \in DOMAIN keys |-> Text(keys[i])])>>)

(* the MATCH option, absent when the command has no fourth argument *)
ScanPattern(cmd) == IF Len(cmd.args) >= 4 THEN cmd.args[4] ELSE Nill

(* the loop from index i (counted from 0) to the next wait, or to the end *)
ScanAdvance(tk, i, keys) ==
    LET end == ScanEnd(tk.cmd)
        n == Len(containers)
        passed == [j \in 1..(Min2(end, n) - i) |-> containers[i + j].key]
    IN IF tk.cmd.args[3] = Nill
       THEN Finished(tk, ScanResult(IF end > n /\ end > i THEN 0 ELSE end,
                                    keys \o SelectSeq(passed, LAMBDA key : is_match(ScanPattern(tk.cmd), key))))
       ELSE IF i >= end THEN Finished(tk, ScanResult(end, keys))
       ELSE IF i >= n THEN Finished(tk, ScanResult(0, keys))
       ELSE [tk EXCEPT !.pc = "scan_type", !.i = i, !.acc = keys,
                       !.hs = <<containers[i + 1].ptr>>, !.want = <<containers[i + 1].ptr, "r">>]

keys_scan(t) ==
    LET tk == task[t]
        next == ScanAdvance(tk, ScanStart(tk.cmd), <<>>)
    IN /\ tk.pc = "scan"
       /\ CanAcquire(t)
       /\ task' = [task EXCEPT ![t] = next]
       /\ locks' = IF next.pc = "scan_type" THEN Acquire(locks, t, KS, "r") ELSE Pass(locks, t, KS)
       /\ UNCHANGED <<containers, heap, expires_queue>>

keys_scan_type(t) ==
    LET tk == task[t]
        h == tk.hs[1]
        key == containers[tk.i + 1].key
        keys == IF tk.cmd.args[3] = Text(type_to_string(heap[h])) /\ is_match(ScanPattern(tk.cmd), key)
                THEN Append(tk.acc, key) ELSE tk.acc
        next == ScanAdvance(tk, tk.i + 1, keys)
    IN /\ tk.pc = "scan_type"
       /\ CanAcquire(t)
       /\ task' = [task EXCEPT ![t] = next]
       /\ locks' = IF next.pc = "scan_type" THEN Pass(locks, t, h)
                   ELSE Release(Pass(locks, t, h), t, KS)
       /\ UNCHANGED <<containers, heap, expires_queue>>

----------------------------------------------------------------------------
(* keys.rs: keys_check_expirations, run by the task the awaker spawned *)

(* expire.rs: pop_now_and_expired_keys: the entries before the pivot leave the queue *)
Pivot(clock) == clock + PivotMicros
(* the split taken at the pivot inclusive *)
pop_through_pivot(q, clock) ==
    [now |-> Pivot(clock),
     expired |-> {e[2] : e \in {x \in q : x[1] <= Pivot(clock)}},
     tail |-> {x \in q : x[1] > Pivot(clock)}]
pop_now_and_expired_keys(q, clock) ==
    [now |-> Pivot(clock),
     expired |-> {e[2] : e \in {x \in q : x[1] < Pivot(clock)}},
     tail |-> {x \in q : x[1] >= Pivot(clock)}]

(* the for loop over the HashSet: the next key, in no particular order *)
ReaperNext(tk) ==
    IF tk.pend = {} THEN {FreeReaper}
    ELSE {[tk EXCEPT !.pc = "reaper_get", !.cmd = Cmd("reaper", <<key>>, <<>>),
                     !.pend = tk.pend \ {key}, !.hs = <<>>, !.want = WantKs("r")]
          : key \in tk.pend}

(* the sleep is over: the expired keys are taken from the queue *)
keys_check_expirations(r) ==
    LET tk == task[r]
        p == pop_now_and_expired_keys(expires_queue, now)
    IN /\ tk.pc = "sleep"
       /\ now >= Unwrap(tk.tp)
       /\ expires_queue' = p.tail
       /\ task' \in {[task EXCEPT ![r] = nx]
                     : nx \in ReaperNext([tk EXCEPT !.tp = Some(p.now), !.pend = p.expired])}
       /\ UNCHANGED <<containers, heap, locks>>

reaper_get(r) ==
    LET tk == task[r]
        c == MapGet(containers, tk.cmd.keys[1])
    IN /\ tk.pc = "reaper_get"
       /\ CanAcquire(r)
       /\ locks' = Pass(locks, r, KS)
       /\ IF IsSome(c)
          THEN task' = [task EXCEPT ![r] = [tk EXCEPT !.pc = "reaper_read", !.hs = <<Unwrap(c)>>,
                                                      !.want = <<Unwrap(c), "r">>]]
          ELSE task' \in {[task EXCEPT ![r] = nx] : nx \in ReaperNext(tk)}
       /\ UNCHANGED <<containers, heap, expires_queue>>

(* the container is read-locked and its expiration time compared with the pivot *)
Expired(c, pivot) == IsSome(get_expiration_time(c)) /\ ~(Unwrap(get_expiration_time(c)) > pivot)

reaper_read(r) ==
    LET tk == task[r]
        h == tk.hs[1]
    IN /\ tk.pc = "reaper_read"
       /\ CanAcquire(r)
       /\ IF Expired(heap[h], Unwrap(tk.tp))
          THEN /\ locks' = Acquire(locks, r, h, "r")
               /\ task' = [task EXCEPT ![r] = [tk EXCEPT !.pc = "reaper_remove",
                                                         !.want = WantKs("w")]]
               /\ heap' = heap
          ELSE /\ locks' = Pass(locks, r, h)
               /\ task' \in {[task EXCEPT ![r] = nx] : nx \in ReaperNext(tk)}
               /\ heap' = Sweep(heap, containers, task')
       /\ UNCHANGED <<containers, expires_queue>>

(* containers.remove(&key): whatever the key maps to now *)
reaper_remove(r) ==
    LET tk == task[r]
    IN /\ tk.pc = "reaper_remove"
       /\ CanAcquire(r)
       /\ containers' = MapRemove(containers, tk.cmd.keys[1])
       /\ locks' = ReleaseAll(Pass(locks, r, KS), r)
       /\ task' \in {[task EXCEPT ![r] = nx] : nx \in ReaperNext(tk)}
       /\ heap' = Sweep(heap, containers', task')
       /\ UNCHANGED expires_queue

(* the clock advances *)
Tick ==
    /\ now < MaxTime
    /\ now' = now + 1
    /\ UNCHANGED <<containers, heap, locks, expires_queue, task, setup, todo, hist, pre>>


----------------------------------------------------------------------------
(* The state after Storage::new(): nothing stored, nothing queued, no task
   running.  A scenario is the commands the connections will send: setup runs
   first, on one connection, then every connection sends its own. *)

Scenario(su, c1, c2, c3) == [setup |-> su, todo |-> [c1 |-> c1, c2 |-> c2, c3 |-> c3]]

EmptySnapshot == [containers |-> <<>>, heap |-> [h \in Handles |-> FreeSlot], expires_queue |-> {}]

InitOf(scenarios) ==
    /\ containers = <<>>
    /\ heap = [h \in Handles |-> FreeSlot]
    /\ locks = [l \in {KS} \cup Handles |-> FreeLock]
    /\ expires_queue = {}
    /\ now = 0
    /\ task = [t \in Tasks |-> IF t \in Clients THEN IdleTask ELSE FreeReaper]
    /\ hist = [t \in Clients |-> <<>>]
    /\ pre = [t \in Clients |-> EmptySnapshot]
    /\ \E s \in scenarios : setup = s.setup /\ todo = s.todo

(* the steps of the program, each with the record of what it completed *)
BeginCommand == \E t \in Clients : Begin(t)
WaitForLock == \E t \in Tasks : Block(t)
EarlyReturn == \E t \in Clients : early_return(t) /\ Observe(t)
TryGetContainer == \E t \in Clients : try_get_container(t) /\ Observe(t)
GetContainer == \E t \in Clients : get_container(t) /\ Observe(t)
LockContainer == \E t \in Clients : lock_container(t) /\ Observe(t)
ExpireKeyAt == \E t \in Clients : expire_key_at(t) /\ Observe(t)
InvokeAwaker == \E t \in Clients : invoke_awaker(t) /\ Observe(t)
GetContainers == \E t \in Clients : get_containers(t) /\ Observe(t)
TryGetContainers == \E t \in Clients : try_get_containers(t) /\ Observe(t)
KeysTypeLock == \E t \in Clients : keys_type_lock(t) /\ Observe(t)
LockAll == \E t \in Clients : lock_all(t) /\ Observe(t)
Locked == \E t \in Clients : locked(t) /\ Observe(t)
KsOp == \E t \in Clients : ks_op(t) /\ Observe(t)
KeysRenameRemove == \E t \in Clients : keys_rename_remove(t) /\ Observe(t)
KeyExpiration == \E t \in Clients : key_expiration(t) /\ Observe(t)
KeysScan == \E t \in Clients : keys_scan(t) /\ Observe(t)
KeysScanType == \E t \in Clients : keys_scan_type(t) /\ Observe(t)
KeysCheckExpirations == \E r \in Reapers : keys_check_expirations(r) /\ Observe(r)
ReaperGet == \E r \in Reapers : reaper_get(r) /\ Observe(r)
ReaperRead == \E r \in Reapers : reaper_read(r) /\ Observe(r)
ReaperRemove == \E r \in Reapers : reaper_remove(r) /\ Observe(r)

----------------------------------------------------------------------------
(* Waiting.  A task waits when the lock it is at cannot be granted to it; the
   tasks it waits for are the holders of incompatible guards and the tasks
   ahead of it in the lock's queue. *)

Waiting(t) == task[t].want # <<>> /\ ~CanAcquire(t)

Blockers(t) ==
    LET lk == locks[task[t].want[1]]
        mode == task[t].want[2]
        q == lk.queue
        ahead == IF InQueue(lk, t)
                 THEN {q[j][1] : j \in {k \in DOMAIN q : \A m \in 1..k : q[m][1] # t}}
                 ELSE {q[j][1] : j \in DOMAIN q}
    IN {x[1] : x \in {y \in lk.holders : mode = "w" \/ y[2] = "w"}} \cup ahead

(* a set of waiting tasks each of which waits for a task of the set *)
WaitCycle ==
    \E S \in SUBSET Tasks :
        /\ S # {}
        /\ \A t \in S : Waiting(t) /\ Blockers(t) \cap S # {}

AllDone ==
    /\ setup = <<>>
    /\ \A t \in Clients : task[t].pc \in {"idle", "dead"} /\ (task[t].pc = "idle" => todo[t] = <<>>)
    /\ \A r \in Reapers : task[r].pc \in {"free", "sleep"}


----------------------------------------------------------------------------
(* Values and keys the scenarios use *)

x == Buf(<<120>>)
y == Buf(<<121>>)

(* C1: two handlers built on lock_all, on the same keys in
   different argument orders.  The keys of one request are distinct. *)
LockAllScenarios ==
    { Scenario(<<>>, <<Cmd("SMOVE", <<"a", "b">>, <<x>>)>>, <<Cmd("SMOVE", <<"b", "a">>, <<x>>)>>, <<>>),
      Scenario(<<>>, <<Cmd("SDIFF", <<"a", "b">>, <<>>)>>, <<Cmd("SINTER", <<"b", "a">>, <<>>)>>, <<>>),
      Scenario(<<>>, <<Cmd("SUNIONSTORE", <<"d", "a", "b">>, <<>>)>>,
                     <<Cmd("SDIFFSTORE", <<"d", "b", "a">>, <<>>)>>, <<>>),
      Scenario(<<>>, <<Cmd("MSET", <<"a", "b">>, <<x, y>>)>>, <<Cmd("MGET", <<"b", "a">>, <<>>)>>, <<>>),
      Scenario(<<>>, <<Cmd("MSET", <<"a", "b">>, <<x, y>>)>>, <<Cmd("MSET", <<"b", "a">>, <<y, x>>)>>, <<>>),
      Scenario(<<>>, <<Cmd("GETSET", <<"a">>, <<x>>)>>, <<Cmd("GET", <<"a">>, <<>>)>>, <<>>),
      Scenario(<<>>, <<Cmd("SUNION", <<"a", "b">>, <<>>)>>, <<Cmd("MSET", <<"b", "a">>, <<y, x>>)>>, <<>>) }

InitLockAll == InitOf(LockAllScenarios)
NextLockAll ==
    \/ BeginCommand
    \/ WaitForLock
    \/ GetContainers
    \/ TryGetContainers
    \/ LockAll
    \/ Locked
SpecLockAll == InitLockAll /\ [][NextLockAll]_vars /\ WF_vars(NextLockAll)

(* the handler runs its callback holding every lock of its plan *)
HoldsItsLocks(t) ==
    task[t].pc = "locked" =>
        \A a \in LockAddresses(task[t].hs, task[t].rs) : Holds(locks, t, a)

EveryCommandReturned ==
    /\ AllDone
    /\ \A t \in Clients : task[t].pc = "idle" /\ HeldBy(locks, t) = {}

(* C1: handlers built on lock_all, run concurrently on overlapping keys in any
   argument order, never wait for each other in a cycle; each runs its callback
   holding all its locks, and all of them eventually return with every lock
   released. *)
C1_LockAllNeverDeadlocks ==
    /\ [](~WaitCycle /\ \A t \in Clients : HoldsItsLocks(t))
    /\ <>EveryCommandReturned

(* one handler holds all its locks while the other, asked for them in the
   opposite order, waits for one of them *)
C1_Witness ==
    \E t1, t2 \in Clients :
        /\ task[t1].pc = "locked" /\ Len(task[t1].hs) = 2
        /\ task[t2].pc = "lock_all" /\ Waiting(t2)
        /\ task[t2].hs = Reverse(task[t1].hs)
        /\ Holds(locks, t1, task[t2].want[1])


----------------------------------------------------------------------------
(* C2: client commands interleaved with a reaper run.  A key is given an
   expiration time that has passed when the reaper wakes; meanwhile one
   connection sends RENAME or SCAN ... TYPE, another a command on the keys. *)

Int0 == IntV(0)
ReaperScenarios ==
    { Scenario(<<Cmd("SADD", <<"a">>, <<x>>), Cmd("SADD", <<"b">>, <<y>>), Cmd("PEXPIRE", <<"b">>, <<Int0>>)>>,
               <<Cmd("RENAME", <<"a", "c">>, <<>>)>>, <<Cmd("SDIFF", <<"a", "b">>, <<>>)>>, <<>>),
      Scenario(<<Cmd("APPEND", <<"s">>, <<x>>), Cmd("PEXPIRE", <<"s">>, <<Int0>>)>>,
               <<Cmd("RENAME", <<"s", "t">>, <<>>)>>, <<Cmd("APPEND", <<"s">>, <<y>>)>>, <<>>),
      Scenario(<<Cmd("LPUSH", <<"l">>, <<x>>), Cmd("PEXPIRE", <<"l">>, <<Int0>>)>>,
               <<Cmd("SCAN", <<>>, <<Int0, IntV(1), Text("list")>>)>>,
               <<Cmd("LPUSH", <<"l">>, <<y>>)>>, <<>>) }

InitReaper == InitOf(ReaperScenarios)
NextReaper ==
    \/ BeginCommand
    \/ WaitForLock
    \/ TryGetContainer
    \/ GetContainer
    \/ LockContainer
    \/ ExpireKeyAt
    \/ InvokeAwaker
    \/ GetContainers
    \/ LockAll
    \/ Locked
    \/ KeysRenameRemove
    \/ KeyExpiration
    \/ KeysScan
    \/ KeysScanType
    \/ KeysCheckExpirations
    \/ ReaperGet
    \/ ReaperRead
    \/ ReaperRemove
    \/ Tick
SpecReaper == InitReaper /\ [][NextReaper]_vars

(* C2: no reachable state has a set of tasks (commands, reaper runs) each
   waiting for a keyspace or container lock that another task of the set holds
   or is queued for ahead of it. *)
C2_NoWaitCycle == ~WaitCycle


----------------------------------------------------------------------------
(* C3, C6: SET on a key whose earlier expiration is in the queue.  The key is
   set and given an expiration; later the same connection sets it again,
   without expiration or with a later one, and reads it; another connection
   asks for its length. *)

SetRaceScenarios ==
    { Scenario(<<Cmd("SET", <<"k">>, <<x>>), Cmd("PEXPIRE", <<"k">>, <<Int0>>)>>,
               <<Cmd("SET", <<"k">>, <<y>>), Cmd("GET", <<"k">>, <<>>)>>,
               <<Cmd("STRLEN", <<"k">>, <<>>)>>, <<>>),
      Scenario(<<Cmd("SET", <<"k">>, <<x>>), Cmd("PEXPIRE", <<"k">>, <<Int0>>)>>,
               <<Cmd("SET", <<"k">>, <<y, Buf(PX), IntV(2)>>), Cmd("GET", <<"k">>, <<>>)>>, <<>>, <<>>) }

InitSetRace == InitOf(SetRaceScenarios)
NextSetRace ==
    \/ BeginCommand
    \/ WaitForLock
    \/ KsOp
    \/ TryGetContainer
    \/ GetContainer
    \/ LockContainer
    \/ ExpireKeyAt
    \/ InvokeAwaker
    \/ GetContainers
    \/ TryGetContainers
    \/ LockAll
    \/ Locked
    \/ KeysCheckExpirations
    \/ ReaperGet
    \/ ReaperRead
    \/ ReaperRemove
    \/ Tick
SpecSetRace == InitSetRace /\ [][NextSetRace]_vars

(* the reaper's removal step, and the container its key maps to at that step *)
ReaperRemoves(r) == task[r].pc = "reaper_remove" /\ task'[r] # task[r]
StoredUnder(key) == heap[Unwrap(MapGet(containers, key))]

(* C3: whenever the reaper removes a key, the container stored under the key
   at that moment has an expiration time at or before the run's pivot; a
   container with no expiration, or a later one, is never removed. *)
C3_ReaperRemovesOnlyExpired ==
    [][\A r \in Reapers :
         (ReaperRemoves(r) /\ IsSome(MapGet(containers, task[r].cmd.keys[1])))
            => Expired(StoredUnder(task[r].cmd.keys[1]), Unwrap(task[r].tp))]_vars

(* C6: once SET K V has returned Ok, a GET K that follows on the connection,
   with no command on K in between and no expiration of K elapsed, returns V. *)
ExpiresLater(cmd) == IsSome(SetOptions(cmd, 0).expire) => Unwrap(SetOptions(cmd, 0).expire) > MaxTime
C6_GetAfterSet ==
    \A t \in Clients :
        (/\ Len(hist[t]) >= 2
         /\ hist[t][1].cmd.op = "SET" /\ hist[t][1].ret = OkV
         /\ hist[t][2].cmd.op = "GET" /\ hist[t][2].cmd.keys = hist[t][1].cmd.keys
         /\ ExpiresLater(hist[t][1].cmd))
        => hist[t][2].ret = Buf(hist[t][1].cmd.args[1].buf)


----------------------------------------------------------------------------
(* C4: a key is given an expiration time and no later command rewrites it;
   other connections work on it and on other keys.  The scheduler is fair:
   a step that stays possible is eventually taken. *)

ExpiryScenarios ==
    { Scenario(<<Cmd("SADD", <<"a">>, <<x>>), Cmd("SADD", <<"b">>, <<y>>), Cmd("PEXPIRE", <<"b">>, <<Int0>>)>>,
               <<Cmd("RENAME", <<"a", "c">>, <<>>)>>, <<Cmd("SDIFF", <<"a", "b">>, <<>>)>>, <<>>) }

InitExpiry == InitOf(ExpiryScenarios)
NextExpiry ==
    \/ BeginCommand
    \/ WaitForLock
    \/ TryGetContainer
    \/ GetContainer
    \/ LockContainer
    \/ ExpireKeyAt
    \/ InvokeAwaker
    \/ GetContainers
    \/ LockAll
    \/ Locked
    \/ KeysRenameRemove
    \/ KeyExpiration
    \/ KeysCheckExpirations
    \/ ReaperGet
    \/ ReaperRead
    \/ ReaperRemove
    \/ Tick
SpecExpiryFair == InitExpiry /\ [][NextExpiry]_vars /\ WF_vars(NextExpiry)

Present(key) == IsSome(MapGet(containers, key))
(* the key has an expiration time that the clock of the model can pass, the
   awaker's extra millisecond included *)
WillExpire(key) ==
    /\ Present(key)
    /\ IsSome(get_expiration_time(StoredUnder(key)))
    /\ Unwrap(get_expiration_time(StoredUnder(key))) + AwakerMillis * MilliTicks <= MaxTime

(* C4: the key given an expiration time (b), and not rewritten since, is
   eventually removed once the clock has passed that time. *)
C4_ExpiredKeyEventuallyRemoved ==
    [](WillExpire("b") => <>~Present("b"))


----------------------------------------------------------------------------
(* C5: one connection deletes a key, sends a read-only command on it, and
   asks whether it exists. *)

ReadOnlyCommands ==
    { Cmd("STRLEN", <<"k">>, <<>>), Cmd("LLEN", <<"k">>, <<>>),
      Cmd("LRANGE", <<"k">>, <<Int0, IntV(1)>>), Cmd("SCARD", <<"k">>, <<>>),
      Cmd("SMEMBERS", <<"k">>, <<>>), Cmd("SISMEMBER", <<"k">>, <<x>>),
      Cmd("HLEN", <<"k">>, <<>>), Cmd("HGET", <<"k">>, <<x>>),
      Cmd("TTL", <<"k">>, <<>>), Cmd("TYPE", <<"k">>, <<>>), Cmd("GET", <<"k">>, <<>>) }
ReadOnlyOps == {c.op : c \in ReadOnlyCommands}

DelExistsScenarios ==
    { Scenario(<<Cmd("LPUSH", <<"k">>, <<x>>)>>,
               <<Cmd("DEL", <<"k">>, <<>>), c, Cmd("EXISTS", <<"k">>, <<>>)>>, <<>>, <<>>)
      : c \in ReadOnlyCommands }

InitDelExists == InitOf(DelExistsScenarios)
NextDelExists ==
    \/ BeginCommand
    \/ KsOp
    \/ TryGetContainer
    \/ GetContainer
    \/ LockContainer
    \/ GetContainers
    \/ TryGetContainers
    \/ Locked
SpecDelExists == InitDelExists /\ [][NextDelExists]_vars

(* C5: on a connection, EXISTS K after DEL K, with only read-only commands on
   K in between (and no other connection writing), returns 0. *)
C5_ExistsAfterDel ==
    \A t \in Clients : \A i, j \in DOMAIN hist[t] :
        (/\ i < j
         /\ hist[t][i].cmd.op = "DEL"
         /\ hist[t][j].cmd.op = "EXISTS" /\ hist[t][j].cmd.keys = hist[t][i].cmd.keys
         /\ \A m \in (i + 1)..(j - 1) : hist[t][m].cmd.op \in ReadOnlyOps)
        => hist[t][j].ret = IntV(0)

----------------------------------------------------------------------------
(* C7: a key holds a container of one type; the connection sends a command
   of another type on it. *)

KeyOfKind ==
    [list |-> Cmd("LPUSH", <<"k">>, <<x>>), set |-> Cmd("SADD", <<"k">>, <<x>>),
     hash |-> Cmd("HSET", <<"k">>, <<x, y>>), string |-> Cmd("APPEND", <<"k">>, <<x>>)]

TypedCommands ==
    { Cmd("APPEND", <<"k">>, <<y>>), Cmd("INCR", <<"k">>, <<>>), Cmd("STRLEN", <<"k">>, <<>>),
      Cmd("GET", <<"k">>, <<>>), Cmd("GETSET", <<"k">>, <<y>>), Cmd("MSET", <<"k">>, <<y>>),
      Cmd("LPUSH", <<"k">>, <<y>>), Cmd("RPUSHX", <<"k">>, <<y>>), Cmd("LLEN", <<"k">>, <<>>),
      Cmd("SADD", <<"k">>, <<y>>), Cmd("SCARD", <<"k">>, <<>>), Cmd("SUNION", <<"k">>, <<>>),
      Cmd("HSET", <<"k">>, <<y, x>>), Cmd("HLEN", <<"k">>, <<>>) }

TypeScenarios ==
    { Scenario(<<KeyOfKind[kind]>>, <<c>>, <<>>, <<>>)
      : kind \in {"list", "set", "hash", "string"}, c \in TypedCommands }

InitTypes == InitOf(TypeScenarios)
NextTypes ==
    \/ BeginCommand
    \/ TryGetContainer
    \/ GetContainer
    \/ LockContainer
    \/ GetContainers
    \/ TryGetContainers
    \/ LockAll
    \/ Locked
SpecTypes == InitTypes /\ [][NextTypes]_vars

(* the container key maps to in store snapshot s *)
StoredIn(s, key) == s.heap[Unwrap(MapGet(s.containers, key))]

(* C7: when a command of one type has been executed on a key that held a
   container of another type, it returned Error("Unexpected container type")
   and the key still maps to that container, content and expiration unchanged. *)
C7_TypeMismatchIsError ==
    \A t \in Clients :
        (/\ task[t].pc \in {"idle", "dead"} /\ hist[t] # <<>>
         /\ IsSome(MapGet(pre[t].containers, "k"))
         /\ StoredIn(pre[t], "k").kind # OpKind(hist[t][Len(hist[t])].cmd.op))
        => /\ hist[t][Len(hist[t])].ret = UnexpectedType
           /\ MapGet(containers, "k") = MapGet(pre[t].containers, "k")
           /\ StoredUnder("k") = StoredIn(pre[t], "k")


----------------------------------------------------------------------------
(* C8: every connection sends INCR k once, concurrently; k is absent at first,
   or holds "7". *)

IncrScenarios ==
    { Scenario(su, <<Cmd("INCR", <<"k">>, <<>>)>>, <<Cmd("INCR", <<"k">>, <<>>)>>,
                   <<Cmd("INCR", <<"k">>, <<>>)>>)
      : su \in {<<>>, <<Cmd("APPEND", <<"k">>, <<Buf(<<55>>)>>)>>} }

InitIncr == InitOf(IncrScenarios)
NextIncr ==
    \/ BeginCommand
    \/ TryGetContainer
    \/ GetContainer
    \/ LockContainer
SpecIncr == InitIncr /\ [][NextIncr]_vars

(* the number stored under k in store snapshot s; an absent key counts as 0 *)
NumberIn(s) ==
    IF IsSome(MapGet(s.containers, "k")) THEN inner_parse(StoredIn(s, "k").inner, 0).num ELSE 0

(* the connections that have sent their INCR, and those that have its reply *)
Sent == {t \in Clients : setup = <<>> /\ todo[t] = <<>>}
Replied == {t \in Clients : hist[t] # <<>>}
(* the number under k before the first INCR *)
InitialNumber == CHOOSE n \in {NumberIn(pre[t]) : t \in Sent} : \A t \in Sent : n <= NumberIn(pre[t])

(* C8: the INCRs that have returned so far returned exactly initial+1 ..
   initial+n, n their number, and k holds initial+n. *)
C8_IncrIsAtomic ==
    Sent # {} =>
        /\ {hist[t][1].ret : t \in Replied} = {IntV(InitialNumber + i) : i \in 1..Cardinality(Replied)}
        /\ Cardinality(Replied) > 0 =>
              /\ Present("k")
              /\ StoredUnder("k").inner = FormatI64(InitialNumber + Cardinality(Replied))

(* the three INCRs have returned, on a key that held 7: it holds "10" *)
C8_Witness ==
    /\ Replied = Clients
    /\ InitialNumber = 7
    /\ StoredUnder("k").inner = <<49, 48>>


----------------------------------------------------------------------------
(* C9: one connection renames a key: to a new name, onto an existing key, onto
   itself, with and without an expiration time, and a key that is missing. *)

RenameScenarios ==
    { Scenario(<<Cmd("APPEND", <<"a">>, <<x>>)>>, <<Cmd("RENAME", <<"a", "b">>, <<>>)>>, <<>>, <<>>),
      Scenario(<<Cmd("APPEND", <<"a">>, <<x>>), Cmd("PEXPIRE", <<"a">>, <<IntV(1)>>)>>,
               <<Cmd("RENAME", <<"a", "b">>, <<>>)>>, <<>>, <<>>),
      Scenario(<<Cmd("APPEND", <<"a">>, <<x>>), Cmd("LPUSH", <<"b">>, <<y>>)>>,
               <<Cmd("RENAME", <<"a", "b">>, <<>>)>>, <<>>, <<>>),
      Scenario(<<Cmd("APPEND", <<"b">>, <<x>>)>>, <<Cmd("RENAME", <<"a", "b">>, <<>>)>>, <<>>, <<>>),
      Scenario(<<Cmd("APPEND", <<"a">>, <<x>>)>>, <<Cmd("RENAME", <<"a", "a">>, <<>>)>>, <<>>, <<>>),
      Scenario(<<Cmd("APPEND", <<"a">>, <<x>>), Cmd("PEXPIRE", <<"a">>, <<IntV(1)>>)>>,
               <<Cmd("RENAME", <<"a", "a">>, <<>>)>>, <<>>, <<>>) }

InitRename == InitOf(RenameScenarios)
NextRename ==
    \/ BeginCommand
    \/ WaitForLock
    \/ TryGetContainer
    \/ GetContainer
    \/ LockContainer
    \/ ExpireKeyAt
    \/ InvokeAwaker
    \/ KeysRenameRemove
    \/ KeyExpiration
    \/ KeysCheckExpirations
    \/ ReaperGet
    \/ ReaperRead
    \/ ReaperRemove
    \/ Tick
SpecRename == InitRename /\ [][NextRename]_vars

(* the steps of RENAME: the lookup of old, the insertion under new, the
   queueing of the expiration time and the call of the awaker *)
RenameLooksUp(t) == task[t].cmd.op = "RENAME" /\ task[t].pc = "rename" /\ task'[t] # task[t]
RenameInserts(t) == task[t].cmd.op = "RENAME" /\ task[t].pc = "key_expiration" /\ task'[t] # task[t]
RenameAnnounces(t) == task[t].cmd.op = "RENAME" /\ task[t].pc = "expire_key_at" /\ task'[t] # task[t]
RenameAwakes(t) == task[t].cmd.op = "RENAME" /\ task[t].pc = "awaker" /\ task'[t] # task[t]

(* RENAME on a missing old: an Error, keyspace and queue unchanged *)
RenameMissing(t) ==
    (RenameLooksUp(t) /\ ~Present(task[t].cmd.keys[1]))
        => /\ task'[t].pc = "idle" /\ task'[t].ret.t = "Error"
           /\ UNCHANGED <<containers, heap, expires_queue>>

(* new maps to the container old mapped to, content and expiration as before *)
RenameMoves(t) ==
    RenameInserts(t) =>
        LET h == task[t].hs[1]
        IN /\ MapGet(pre[t].containers, task[t].cmd.keys[1]) = Some(h)
           /\ MapGet(containers', task[t].cmd.keys[2]) = Some(h)
           /\ heap'[h] = pre[t].heap[h]
           /\ ~IsSome(get_expiration_time(heap[h])) =>
                  task'[t].pc = "idle" /\ task'[t].ret = OkV /\ UNCHANGED expires_queue

(* with expiration T, new joins the queue's bucket for T and a reaper run is
   scheduled for it *)
RenameQueues(t) ==
    /\ RenameAnnounces(t) =>
          LET T == Unwrap(get_expiration_time(heap[task[t].hs[1]]))
          IN /\ <<T, task[t].cmd.keys[2]>> \in expires_queue'
             /\ task'[t].pc = "awaker" /\ task'[t].tp = Some(T)
    /\ RenameAwakes(t) =>
          LET T == Unwrap(task[t].tp)
          IN /\ \E r \in Reapers : task'[r].pc = "sleep" /\ Unwrap(task'[r].tp) = T + AwakerMillis * MilliTicks
             /\ task'[t].pc = "idle" /\ task'[t].ret = OkV

(* C9, as stated: after RENAME old new on an existing old, old is absent, new
   maps to the same container, content and expiration unchanged, and with an
   expiration T new is in the queue's bucket for T; on a missing old RENAME
   returns an Error and changes neither keyspace nor queue. *)
C9_RenameAsStated ==
    [][\A t \in Clients :
         /\ RenameMissing(t) /\ RenameMoves(t) /\ RenameQueues(t)
         /\ RenameInserts(t) => ~IsSome(MapGet(containers', task[t].cmd.keys[1]))]_vars

(* C9, amended: the same, with old absent afterwards when new is another key;
   RENAME of a key onto itself leaves it in place. *)
C9_Rename ==
    [][\A t \in Clients :
         /\ RenameMissing(t) /\ RenameMoves(t) /\ RenameQueues(t)
         /\ RenameInserts(t) =>
                (IsSome(MapGet(containers', task[t].cmd.keys[1]))
                    <=> task[t].cmd.keys[1] = task[t].cmd.keys[2])]_vars

(* RENAME a b has returned Ok: a is gone, b holds the value and the
   expiration time, and b is queued for it *)
C9_Witness ==
    /\ hist["c1"] # <<>> /\ hist["c1"][1].ret = OkV
    /\ hist["c1"][1].cmd.keys = <<"a", "b">>
    /\ ~Present("a") /\ Present("b")
    /\ StoredUnder("b").inner = x.buf
    /\ IsSome(get_expiration_time(StoredUnder("b")))
    /\ <<Unwrap(get_expiration_time(StoredUnder("b"))), "b">> \in expires_queue


----------------------------------------------------------------------------
(* C10: TTL and PTTL on a key that is absent, that is being created, that
   has no expiration time, and that has one the clock passes before the reaper
   takes the key away. *)

TtlScenarios ==
    { Scenario(<<>>, <<Cmd("TTL", <<"k">>, <<>>), Cmd("PTTL", <<"k">>, <<>>)>>,
               <<Cmd("APPEND", <<"k">>, <<x>>)>>, <<>>),
      Scenario(<<Cmd("APPEND", <<"k">>, <<x>>), Cmd("PEXPIRE", <<"k">>, <<IntV(1)>>)>>,
               <<Cmd("TTL", <<"k">>, <<>>), Cmd("PTTL", <<"k">>, <<>>)>>,
               <<Cmd("PTTL", <<"k">>, <<>>)>>, <<>>),
      Scenario(<<Cmd("APPEND", <<"k">>, <<x>>), Cmd("EXPIRE", <<"k">>, <<IntV(1)>>)>>,
               <<Cmd("PTTL", <<"k">>, <<>>), Cmd("TTL", <<"k">>, <<>>)>>, <<>>, <<>>) }

InitTtl == InitOf(TtlScenarios)
NextTtl ==
    \/ BeginCommand
    \/ TryGetContainer
    \/ GetContainer
    \/ LockContainer
    \/ ExpireKeyAt
    \/ InvokeAwaker
    \/ KeysCheckExpirations
    \/ ReaperGet
    \/ ReaperRead
    \/ ReaperRemove
    \/ Tick
SpecTtl == InitTtl /\ [][NextTtl]_vars

(* a step of a TTL or PTTL handler *)
TtlStep(t) == task[t].cmd.op \in TtlOps /\ task[t].pc # "idle" /\ task'[t] # task[t]
(* the unit of the reply: seconds for TTL, milliseconds for PTTL *)
TtlUnit(op) == IF op = "PTTL" THEN MilliTicks ELSE SecTicks
(* every key keeps its place, its container and the container's content *)
KeyspaceUnchanged ==
    /\ UNCHANGED <<containers, expires_queue>>
    /\ \A i \in DOMAIN containers : heap'[containers[i].ptr] = heap[containers[i].ptr]

(* C10: TTL and PTTL reply -2 for an absent key, -1 for a key with no
   expiration time, otherwise the time that remains until the expiration in
   their unit, 0 once the expiration time is past and the key still there,
   never a negative remainder; no step of theirs creates the key or changes
   keyspace, containers or expiration queue. *)
C10_TtlReportsAndReadsOnly ==
    [][\A t \in Clients : TtlStep(t) =>
         /\ KeyspaceUnchanged
         /\ task[t].pc = "try_get" =>
                IF Present(task[t].cmd.keys[1]) THEN ~Completes(t)
                ELSE Completes(t) /\ task'[t].ret = IntV(-2)
         /\ task[t].pc = "lock" =>
                LET T == get_expiration_time(heap[task[t].hs[1]])
                IN /\ Completes(t)
                   /\ IF ~IsSome(T) THEN task'[t].ret = IntV(-1)
                      ELSE /\ task'[t].ret.int >= 0
                           /\ task'[t].ret =
                                  IntV(IF Unwrap(T) > now
                                       THEN (Unwrap(T) - now) \div TtlUnit(task[t].cmd.op)
                                       ELSE 0)]_vars

(* PTTL has replied 0 for a key whose expiration time is past and which the
   reaper has not yet removed *)
C10_Witness ==
    /\ task["c1"].pc = "idle" /\ task["c1"].cmd.op = "PTTL" /\ task["c1"].ret = IntV(0)
    /\ Present("k")
    /\ IsSome(get_expiration_time(StoredUnder("k")))
    /\ Unwrap(get_expiration_time(StoredUnder("k"))) < now


----------------------------------------------------------------------------
(* C11: the four EXPIRE commands, with a period or timestamp of 0, 1 and -1,
   on a key of each type and on an absent key. *)

ExpireScenarios ==
    { Scenario(su, <<Cmd(op, <<"k">>, <<IntV(n)>>)>>, <<>>, <<>>)
      : su \in {<<KeyOfKind[kind]>> : kind \in {"list", "set", "hash", "string"}}
               \cup {<<Cmd("LPUSH", <<"j">>, <<x>>)>>},
        op \in ExpireOps, n \in {0, 1, -1} }

InitExpire == InitOf(ExpireScenarios)
NextExpire ==
    \/ BeginCommand
    \/ EarlyReturn
    \/ TryGetContainer
    \/ GetContainer
    \/ LockContainer
    \/ ExpireKeyAt
    \/ InvokeAwaker
    \/ KeysCheckExpirations
    \/ ReaperGet
    \/ ReaperRead
    \/ ReaperRemove
    \/ Tick
SpecExpire == InitExpire /\ [][NextExpire]_vars

(* the timestamp the command asks for, the command read at time clock *)
ExpireStamp(cmd, clock) ==
    LET n == cmd.args[1].int
    IN IF cmd.op = "EXPIRE" THEN clock + n * SecTicks
       ELSE IF cmd.op = "PEXPIRE" THEN clock + n * MilliTicks
       ELSE IF cmd.op = "EXPIREAT" THEN n * SecTicks
       ELSE n * MilliTicks

(* a step of one of the four handlers *)
ExpireStep(t) == task[t].cmd.op \in ExpireOps /\ task[t].pc # "idle" /\ task'[t] # task[t]

(* C11: EXPIRE, PEXPIRE, EXPIREAT and PEXPIREAT return a Bool: on an absent
   key Bool(false), with keyspace, containers, expiration queue and reaper
   runs left as they are; on an existing key of any type Bool(true), the
   container's expiration_time set to the computed timestamp and the key
   added to the queue under that timestamp. *)
C11_ExpireSetsOrRefuses ==
    [][\A t \in Clients :
         /\ (task[t].pc = "idle" /\ task'[t].pc = "try_get" /\ task'[t].cmd.op \in ExpireOps
                /\ task'[t].cmd.args[1].int >= 0)
                => task'[t].tp = Some(ExpireStamp(task'[t].cmd, now))
         /\ ExpireStep(t) =>
              /\ task'[t].pc # "dead"
              /\ (task[t].pc = "try_get" /\ ~Present(task[t].cmd.keys[1])) =>
                     /\ Completes(t) /\ task'[t].ret = BoolV(FALSE)
                     /\ KeyspaceUnchanged
                     /\ \A r \in Reapers : task'[r] = task[r]
              /\ task[t].pc = "lock" =>
                     /\ heap'[task[t].hs[1]].expiration_time = task[t].tp
                     /\ heap'[task[t].hs[1]].inner = heap[task[t].hs[1]].inner
              /\ task[t].pc = "expire_key_at" =>
                     /\ task'[t].pc = "awaker"
                     /\ <<Unwrap(task[t].tp), task[t].cmd.keys[1]>> \in expires_queue'
              /\ task[t].pc = "awaker" =>
                     Completes(t) /\ task'[t].ret = BoolV(TRUE)]_vars


----------------------------------------------------------------------------
(* C12: SET with and without NX, XX, EX and PX, on an absent key, on a string
   and on a list. *)

nx == <<110, 120>>
SetVariants ==
    { <<y>>, <<y, Buf(NX)>>, <<y, Buf(XX)>>, <<y, Buf(nx)>>,
      <<y, Buf(NX), Buf(EX), IntV(1)>>, <<y, Buf(PX), IntV(1), Buf(XX)>>,
      <<y, Buf(EX), IntV(1)>>, <<y, Buf(PX), IntV(0)>> }
SetScenarios ==
    { Scenario(su, <<Cmd("SET", <<"k">>, args)>>, <<>>, <<>>)
      : su \in { <<Cmd("LPUSH", <<"j">>, <<x>>)>>, <<Cmd("APPEND", <<"k">>, <<x>>)>>,
                 <<Cmd("LPUSH", <<"k">>, <<x>>)>> },
        args \in SetVariants }

InitSet == InitOf(SetScenarios)
NextSet ==
    \/ BeginCommand
    \/ KsOp
    \/ TryGetContainer
    \/ GetContainer
    \/ LockContainer
    \/ ExpireKeyAt
    \/ InvokeAwaker
    \/ KeysCheckExpirations
    \/ ReaperGet
    \/ ReaperRead
    \/ ReaperRemove
    \/ Tick
SpecSet == InitSet /\ [][NextSet]_vars

(* the command carries the option, in one of its spellings *)
Asks(cmd, spellings) == \E i \in 2..Len(cmd.args) : \E o \in spellings : cmd.args[i] = Buf(o)
(* NX finds the key, or XX finds none *)
SetBlocked(cmd) ==
    \/ Asks(cmd, {NX, nx}) /\ Present(cmd.keys[1])
    \/ Asks(cmd, {XX}) /\ ~Present(cmd.keys[1])
(* the step in which SET looks at the keyspace, and the step in which it
   announces the expiration *)
SetWrites(t) == task[t].cmd.op = "SET" /\ task[t].pc = "ks_op" /\ task'[t] # task[t]
SetAnnounces(t) == task[t].cmd.op = "SET" /\ task[t].pc = "awaker" /\ task'[t] # task[t]

(* C12: a SET that NX or XX blocks returns Nil and changes neither keyspace,
   containers, expiration queue nor reaper runs, EX or PX given or not; any
   other SET returns Ok and leaves the key holding a string with the value. *)
C12_SetHonoursNxXx ==
    [][\A t \in Clients :
         /\ SetWrites(t) =>
              IF SetBlocked(task[t].cmd)
              THEN /\ Completes(t) /\ task'[t].ret = Nill
                   /\ KeyspaceUnchanged
                   /\ \A r \in Reapers : task'[r] = task[r]
              ELSE /\ Present(task[t].cmd.keys[1])'
                   /\ StoredUnder(task[t].cmd.keys[1])'.kind = "string"
                   /\ StoredUnder(task[t].cmd.keys[1])'.inner = task[t].cmd.args[1].buf
                   /\ IF Asks(task[t].cmd, {EX, PX}) THEN task'[t].pc = "expire_key_at"
                      ELSE Completes(t) /\ task'[t].ret = OkV
         /\ SetAnnounces(t) => Completes(t) /\ task'[t].ret = OkV]_vars

(* SET k y NX EX 1 has returned Nil: k still holds x, nothing is queued *)
C12_Witness ==
    /\ hist["c1"] # <<>> /\ hist["c1"][1].ret = Nill
    /\ hist["c1"][1].cmd.args = <<y, Buf(NX), Buf(EX), IntV(1)>>
    /\ Present("k") /\ StoredUnder("k").inner = x.buf
    /\ expires_queue = {}
    /\ \A r \in Reapers : task[r].pc = "free"


----------------------------------------------------------------------------
(* C13: SET with KEEPTTL and plain SET on a key that has an expiration time,
   and SET with KEEPTTL on a key that has none. *)

KeepTtlScenarios ==
    { Scenario(<<Cmd("SET", <<"k">>, <<x>>), Cmd("PEXPIRE", <<"k">>, <<IntV(1)>>)>>,
               <<Cmd("SET", <<"k">>, <<y, Buf(KEEPTTL)>>)>>, <<>>, <<>>),
      Scenario(<<Cmd("SET", <<"k">>, <<x>>), Cmd("PEXPIRE", <<"k">>, <<IntV(1)>>)>>,
               <<Cmd("SET", <<"k">>, <<y>>)>>, <<>>, <<>>),
      Scenario(<<Cmd("SET", <<"k">>, <<x>>)>>,
               <<Cmd("SET", <<"k">>, <<y, Buf(KEEPTTL)>>)>>, <<>>, <<>>) }

InitKeepTtl == InitOf(KeepTtlScenarios)
NextKeepTtl ==
    \/ BeginCommand
    \/ KsOp
    \/ TryGetContainer
    \/ LockContainer
    \/ ExpireKeyAt
    \/ InvokeAwaker
    \/ KeysCheckExpirations
    \/ ReaperGet
    \/ ReaperRead
    \/ ReaperRemove
    \/ Tick
SpecKeepTtl == InitKeepTtl /\ [][NextKeepTtl]_vars

(* C13: SET with KEEPTTL on a key whose container has expiration time T
   leaves the key with expiration time T; SET without KEEPTTL, EX and PX
   leaves the key with no expiration time. *)
C13_KeepTtlRetains ==
    [][\A t \in Clients : (SetWrites(t) /\ Present(task[t].cmd.keys[1])) =>
         /\ Asks(task[t].cmd, {KEEPTTL}) =>
                StoredUnder(task[t].cmd.keys[1])'.expiration_time
                    = StoredUnder(task[t].cmd.keys[1]).expiration_time
         /\ ~Asks(task[t].cmd, {KEEPTTL, EX, PX}) =>
                StoredUnder(task[t].cmd.keys[1])'.expiration_time = None]_vars


----------------------------------------------------------------------------
(* C14: three connections run SETNX on the same key at once, the key absent
   or already there. *)

z == Buf(<<122>>)
SetNxValue == [c1 |-> x, c2 |-> y, c3 |-> z]
SetNxScenarios ==
    { Scenario(su, <<Cmd("SETNX", <<"k">>, <<x>>)>>, <<Cmd("SETNX", <<"k">>, <<y>>)>>,
               <<Cmd("SETNX", <<"k">>, <<z>>)>>)
      : su \in { <<>>, <<Cmd("SET", <<"j">>, <<x>>)>>, <<Cmd("SET", <<"k">>, <<Buf(<<119>>)>>)>> } }

InitSetNx == InitOf(SetNxScenarios)
NextSetNx ==
    \/ BeginCommand
    \/ KsOp
SpecSetNx == InitSetNx /\ [][NextSetNx]_vars

(* the connections whose SETNX has returned, and those that were told true *)
SetNxReplied == {t \in Clients : hist[t] # <<>>}
SetNxWon == {t \in SetNxReplied : hist[t][1].ret = BoolV(TRUE)}
(* the key was there before the first SETNX *)
SetNxOccupied == \E t \in Clients : hist[t] # <<>> /\ IsSome(MapGet(pre[t].containers, "k"))

(* C14: of the SETNX calls on one key at most one returns Bool(true), the
   others Bool(false); on an absent key exactly one does once all have
   returned, and the key holds that call's value; on an existing key none
   does and the key keeps its value. *)
C14_SetNxInsertsOnce ==
    /\ \A t \in SetNxReplied : hist[t][1].ret \in {BoolV(TRUE), BoolV(FALSE)}
    /\ Cardinality(SetNxWon) <= 1
    /\ \A t \in SetNxWon : Present("k") /\ StoredUnder("k").inner = SetNxValue[t].buf
    /\ (SetNxReplied # {} /\ setup = <<>>) =>
           /\ Present("k")
           /\ SetNxWon = {} => StoredUnder("k").inner = <<119>>
    /\ (SetNxReplied = Clients /\ StoredUnder("k").inner # <<119>>) => Cardinality(SetNxWon) = 1

(* all three have returned, the second connection was told true, the key
   holds its value *)
C14_Witness ==
    /\ SetNxReplied = Clients
    /\ SetNxWon = {"c2"}
    /\ StoredUnder("k").inner = y.buf


----------------------------------------------------------------------------
(* C15: GETSET, then GET, on an absent key, on a string with and without an
   expiration time, and on a list, a set and a hash; one connection, no
   reaper run in between. *)

GetSetScenarios ==
    { Scenario(su, <<Cmd("GETSET", <<"k">>, <<y>>), Cmd("GET", <<"k">>, <<>>)>>, <<>>, <<>>)
      : su \in { <<Cmd("LPUSH", <<"j">>, <<x>>)>>,
                 <<Cmd("APPEND", <<"k">>, <<x>>), Cmd("PEXPIRE", <<"k">>, <<IntV(1)>>)>>,
                 <<Cmd("APPEND", <<"k">>, <<x>>)>>,
                 <<Cmd("LPUSH", <<"k">>, <<x>>)>>, <<Cmd("SADD", <<"k">>, <<x>>)>>,
                 <<Cmd("HSET", <<"k">>, <<x, y>>)>> } }

InitGetSet == InitOf(GetSetScenarios)
NextGetSet ==
    \/ BeginCommand
    \/ TryGetContainer
    \/ GetContainer
    \/ LockContainer
    \/ ExpireKeyAt
    \/ InvokeAwaker
    \/ GetContainers
    \/ TryGetContainers
    \/ LockAll
    \/ Locked
SpecGetSet == InitGetSet /\ [][NextGetSet]_vars

(* the step in which GETSET ends *)
GetSetEnds(t) == task[t].cmd.op = "GETSET" /\ Completes(t)
(* what the key held when the command was read *)
Prior(t) ==
    LET c == MapGet(pre[t].containers, task[t].cmd.keys[1])
    IN IF IsSome(c) THEN Some(pre[t].heap[Unwrap(c)]) ELSE None

(* C15: GETSET always returns a Value: the prior buffer when the key held a
   string, Nil when the key was absent, an Error when it held another type;
   in the first two cases the key afterwards holds the new value and has no
   expiration time. *)
C15_GetSetSwaps ==
    [][\A t \in Clients : GetSetEnds(t) =>
         /\ task'[t].pc # "dead"
         /\ IF ~IsSome(Prior(t)) THEN task'[t].ret = Nill
            ELSE IF Unwrap(Prior(t)).kind = "string" THEN task'[t].ret = Buf(Unwrap(Prior(t)).inner)
            ELSE task'[t].ret.t = "Error"
         /\ (IsSome(Prior(t)) => Unwrap(Prior(t)).kind = "string") =>
                /\ Present(task[t].cmd.keys[1])'
                /\ StoredUnder(task[t].cmd.keys[1])' =
                       [kind |-> "string", inner |-> task[t].cmd.args[1].buf,
                        expiration_time |-> None]]_vars


----------------------------------------------------------------------------
(* C16: SDIFFSTORE d a a, with a absent, of one member and of two, d absent
   or already a set, and another connection adding to a meanwhile. *)

DiffStoreScenarios ==
    { Scenario(su, <<Cmd("SDIFFSTORE", <<"d", "a", "a">>, <<>>), Cmd("SCARD", <<"d">>, <<>>)>>,
               c2, <<>>)
      : su \in { <<Cmd("SADD", <<"j">>, <<x>>)>>, <<Cmd("SADD", <<"a">>, <<x>>)>>,
                 <<Cmd("SADD", <<"a">>, <<x, y>>)>>,
                 <<Cmd("SADD", <<"a">>, <<x>>), Cmd("SADD", <<"d">>, <<y>>)>> },
        c2 \in { <<>>, <<Cmd("SADD", <<"a">>, <<y>>)>> } }

InitDiffStore == InitOf(DiffStoreScenarios)
NextDiffStore ==
    \/ BeginCommand
    \/ WaitForLock
    \/ TryGetContainer
    \/ GetContainer
    \/ LockContainer
    \/ GetContainers
    \/ LockAll
    \/ Locked
SpecDiffStore == InitDiffStore /\ [][NextDiffStore]_vars

(* C16: SDIFFSTORE with the same source key given twice completes, returns 0
   and leaves the destination holding the empty set. *)
C16_DiffStoreOfItself ==
    [][\A t \in Clients :
         (task[t].cmd.op = "SDIFFSTORE" /\ task[t].cmd.keys[2] = task[t].cmd.keys[3] /\ Completes(t)) =>
             /\ task'[t].pc = "idle" /\ task'[t].ret = IntV(0)
             /\ Present(task[t].cmd.keys[1])'
             /\ StoredUnder(task[t].cmd.keys[1])'.kind = "set"
             /\ StoredUnder(task[t].cmd.keys[1])'.inner = <<>>]_vars


----------------------------------------------------------------------------
(* C17: BITOP XOR d a a, with a absent, of one byte and of two, d absent or
   already a string, and another connection appending to a meanwhile. *)

XorScenarios ==
    { Scenario(su, <<Cmd("BITOP", <<"d", "a", "a">>, <<Text("XOR")>>), Cmd("GET", <<"d">>, <<>>)>>,
               c2, <<>>)
      : su \in { <<Cmd("APPEND", <<"j">>, <<x>>)>>, <<Cmd("APPEND", <<"a">>, <<x>>)>>,
                 <<Cmd("APPEND", <<"a">>, <<x>>), Cmd("APPEND", <<"a">>, <<y>>)>>,
                 <<Cmd("APPEND", <<"a">>, <<x>>), Cmd("APPEND", <<"d">>, <<y>>)>> },
        c2 \in { <<>>, <<Cmd("APPEND", <<"a">>, <<y>>)>> } }

InitXor == InitOf(XorScenarios)
NextXor ==
    \/ BeginCommand
    \/ WaitForLock
    \/ TryGetContainer
    \/ GetContainer
    \/ LockContainer
    \/ GetContainers
    \/ TryGetContainers
    \/ LockAll
    \/ Locked
SpecXor == InitXor /\ [][NextXor]_vars

(* the length of the string under the key, 0 for an absent key *)
LengthOf(key) == IF Present(key) THEN Len(StoredUnder(key).inner) ELSE 0

(* C17: BITOP XOR with the same source key given twice completes, returns
   the source's length and leaves the destination holding that many zero
   bytes. *)
C17_XorOfItself ==
    [][\A t \in Clients :
         (/\ task[t].cmd.op = "BITOP" /\ task[t].cmd.args = <<Text("XOR")>>
          /\ task[t].cmd.keys[2] = task[t].cmd.keys[3] /\ Completes(t)) =>
             /\ task'[t].pc = "idle" /\ task'[t].ret = IntV(LengthOf(task[t].cmd.keys[2]))
             /\ Present(task[t].cmd.keys[1])'
             /\ StoredUnder(task[t].cmd.keys[1])'.kind = "string"
             /\ StoredUnder(task[t].cmd.keys[1])'.inner
                    = [i \in 1..LengthOf(task[t].cmd.keys[2]) |-> 0]]_vars


----------------------------------------------------------------------------
(* C18: SETBIT k i 1, GETBIT k i, SETBIT k i 0, GETBIT k i on one connection,
   for bit offsets inside the first byte, beyond the end of the buffer and
   further out, the key absent or holding one byte. *)

BitOffsets == {0, 1, 7, 8, 12, 33, 34, 40}
BitScenarios ==
    { Scenario(su, <<Cmd("SETBIT", <<"k">>, <<IntV(i), IntV(1)>>), Cmd("GETBIT", <<"k">>, <<IntV(i)>>),
                     Cmd("SETBIT", <<"k">>, <<IntV(i), IntV(0)>>), Cmd("GETBIT", <<"k">>, <<IntV(i)>>)>>,
               <<>>, <<>>)
      : su \in { <<Cmd("APPEND", <<"j">>, <<x>>)>>, <<Cmd("APPEND", <<"k">>, <<x>>)>> },
        i \in BitOffsets }

InitBits == InitOf(BitScenarios)
NextBits ==
    \/ BeginCommand
    \/ EarlyReturn
    \/ TryGetContainer
    \/ GetContainer
    \/ LockContainer
SpecBits == InitBits /\ [][NextBits]_vars

(* bit n of a buffer, bit 0 the most significant bit of the first byte; a
   bit beyond the end is 0 *)
BitAt(buf, n) ==
    IF n \div 8 >= Len(buf) THEN 0 ELSE (buf[n \div 8 + 1] \div (2 ^ (7 - (n % 8)))) % 2
(* the buffer under the key, empty for an absent key *)
BufferOf(key) == IF Present(key) THEN StoredUnder(key).inner ELSE <<>>

(* C18: SETBIT and GETBIT with an offset from 0 on succeed with a Bool;
   SETBIT returns the prior bit, pads the buffer with zero bytes to
   offset/8 + 1 bytes, sets the bit and changes no other; GETBIT returns the
   bit: after SETBIT k i 1 true, after SETBIT k i 0 false. *)
C18_SetBitGetBit ==
    [][\A t \in Clients :
         (task[t].cmd.op \in {"SETBIT", "GETBIT"} /\ Completes(t)) =>
            LET key == task[t].cmd.keys[1]
                i == task[t].cmd.args[1].int
                old == BufferOf(key)
                new == BufferOf(key)'
                bit == IF task[t].cmd.op = "GETBIT" THEN BitAt(old, i) ELSE task[t].cmd.args[2].int
            IN /\ task'[t].ret = BoolV(BitAt(old, i) = 1)
               /\ Len(new) = IF task[t].cmd.op = "GETBIT" THEN Len(old)
                             ELSE Max2(Len(old), i \div 8 + 1)
               /\ \A n \in 0..(8 * Len(new) - 1) : BitAt(new, n) = IF n = i THEN bit ELSE BitAt(old, n)]_vars


----------------------------------------------------------------------------
(* C19: BITOP AND d s1 s2 on one connection, each source absent, of one byte
   or of two. *)

AndSources(key, a, b) ==
    { <<>>, <<Cmd("APPEND", <<key>>, <<a>>)>>,
      <<Cmd("APPEND", <<key>>, <<a>>), Cmd("APPEND", <<key>>, <<b>>)>> }
AndScenarios ==
    { Scenario(s1 \o s2,
               <<Cmd("BITOP", <<"d", "s1", "s2">>, <<Text("AND")>>), Cmd("GET", <<"d">>, <<>>)>>,
               <<>>, <<>>)
      : s1 \in AndSources("s1", x, y), s2 \in AndSources("s2", y, x) }

InitAnd == InitOf(AndScenarios)
NextAnd ==
    \/ BeginCommand
    \/ TryGetContainer
    \/ GetContainer
    \/ LockContainer
    \/ GetContainers
    \/ TryGetContainers
    \/ LockAll
    \/ Locked
SpecAnd == InitAnd /\ [][NextAnd]_vars

(* C19: BITOP AND stores in the destination a buffer as long as the longest
   source; each bit below the shortest source's length (an absent source has
   length 0) is the AND of the sources' bits, each bit from there on is 0. *)
C19_AndZeroPads ==
    [][\A t \in Clients :
         (task[t].cmd.op = "BITOP" /\ task[t].cmd.args = <<Text("AND")>> /\ Completes(t)) =>
            LET srcs == Tail(task[t].cmd.keys)
                lens == {LengthOf(srcs[j]) : j \in DOMAIN srcs}
                longest == CHOOSE l \in lens : \A m \in lens : m <= l
                shortest == CHOOSE l \in lens : \A m \in lens : l <= m
                dest == BufferOf(task[t].cmd.keys[1])'
            IN /\ task'[t].ret = IntV(longest)
               /\ Len(dest) = longest
               /\ \A n \in 0..(8 * longest - 1) :
                     BitAt(dest, n) = 1 <=>
                         (n < 8 * shortest /\ \A j \in DOMAIN srcs : BitAt(BufferOf(srcs[j]), n) = 1)]_vars


----------------------------------------------------------------------------
(* C20: LTRIM k start stop on one connection, the list absent, of one
   element and of three, every pair of indices from -TrimSpan to TrimSpan. *)

TrimSpan == 4
TrimScenarios ==
    { Scenario(su, <<Cmd("LTRIM", <<"k">>, <<IntV(start), IntV(stop)>>), Cmd("LLEN", <<"k">>, <<>>)>>,
               <<>>, <<>>)
      : su \in { <<Cmd("RPUSH", <<"j">>, <<x>>)>>, <<Cmd("RPUSH", <<"k">>, <<x>>)>>,
                 <<Cmd("RPUSH", <<"k">>, <<x, y, z>>)>> },
        start \in (0 - TrimSpan)..TrimSpan, stop \in (0 - TrimSpan)..TrimSpan }

InitTrim == InitOf(TrimScenarios)
NextTrim ==
    \/ BeginCommand
    \/ TryGetContainer
    \/ GetContainer
    \/ LockContainer
SpecTrim == InitTrim /\ [][NextTrim]_vars

(* the index counted from the front: a negative one is relative to the length *)
FromFront(i, length) == IF i < 0 THEN length + i ELSE i

(* C20: LTRIM returns Ok; with negative indices taken relative to the length
   and stop clamped to the last index, it clears the list when start > stop
   or start >= length, and otherwise leaves exactly the elements that were at
   the positions start..stop, in their order. *)
C20_TrimKeepsTheRange ==
    [][\A t \in Clients :
         (task[t].cmd.op = "LTRIM" /\ Completes(t)) =>
            LET old == BufferOf(task[t].cmd.keys[1])
                start == FromFront(task[t].cmd.args[1].int, Len(old))
                stop == Min2(FromFront(task[t].cmd.args[2].int, Len(old)), Len(old) - 1)
                first == Max2(start, 0)
            IN /\ task'[t].ret = OkV
               /\ BufferOf(task[t].cmd.keys[1])' =
                      IF start > stop \/ start >= Len(old) THEN <<>>
                      ELSE SubSeq(old, first + 1, stop + 1)]_vars


----------------------------------------------------------------------------
(* C21: LRANGE k start stop on one connection, the list absent, of one
   element and of three, every pair of indices from 0 to RangeSpan, and an
   LLEN after it. *)

RangeSpan == 4
RangeScenarios ==
    { Scenario(su, <<Cmd("LRANGE", <<"k">>, <<IntV(start), IntV(stop)>>), Cmd("LLEN", <<"k">>, <<>>)>>,
               <<>>, <<>>)
      : su \in { <<Cmd("RPUSH", <<"j">>, <<x>>)>>, <<Cmd("RPUSH", <<"k">>, <<x>>)>>,
                 <<Cmd("RPUSH", <<"k">>, <<x, y, z>>)>> },
        start \in 0..RangeSpan, stop \in 0..RangeSpan }

InitRange == InitOf(RangeScenarios)
NextRange ==
    \/ BeginCommand
    \/ TryGetContainer
    \/ GetContainer
    \/ LockContainer
SpecRange == InitRange /\ [][NextRange]_vars

(* the elements at the positions start..stop that the list has, in order *)
Slice(list, start, stop) ==
    IF start > stop \/ start >= Len(list) THEN <<>>
    ELSE SubSeq(list, start + 1, Min2(stop, Len(list) - 1) + 1)

(* C21: for non-negative start and stop LRANGE returns the Array of the
   elements at the positions i with start <= i <= stop and i < length, in
   order, the empty Array when start > stop or start >= length, and leaves
   the list as it was. *)
C21_RangeIsTheSlice ==
    [][\A t \in Clients :
         (task[t].cmd.op = "LRANGE" /\ Completes(t)) =>
            LET old == BufferOf(task[t].cmd.keys[1])
            IN /\ task'[t].ret = Arr(Slice(old, task[t].cmd.args[1].int, task[t].cmd.args[2].int))
               /\ BufferOf(task[t].cmd.keys[1])' = old]_vars


----------------------------------------------------------------------------
(* C22: one connection iterates the keyspace with SCAN, starting at cursor 0
   and sending each returned cursor back until it is 0; another connection
   may append to a string meanwhile, which leaves the keyspace as it is.
   Keyspaces of no key to three keys, COUNT 1..ScanCount, with and without
   TYPE and MATCH. *)

ScanCount == 4
ScanSetups ==
    { <<>>, <<Cmd("RPUSH", <<"a">>, <<x>>)>>,
      <<Cmd("RPUSH", <<"a">>, <<x>>), Cmd("APPEND", <<"b">>, <<x>>)>>,
      <<Cmd("RPUSH", <<"a">>, <<x>>), Cmd("APPEND", <<"b">>, <<x>>), Cmd("RPUSH", <<"c">>, <<y>>)>> }
ScanOptions ==
    { <<type>> : type \in {Nill, Text("list")} }
        \cup { <<type, pattern>> : type \in {Nill, Text("list")}, pattern \in {Text("."), Text("c")} }
ScanScenarios ==
    UNION { { Scenario(su, <<Cmd("SCAN", <<>>, <<Int0, IntV(n)>> \o opts)>>, c2, <<>>)
              : n \in 1..ScanCount, opts \in ScanOptions,
                c2 \in {<<>>} \cup (IF Len(su) >= 2 THEN {<<Cmd("APPEND", <<"b">>, <<y>>)>>} ELSE {}) }
            : su \in ScanSetups }

(* the connection's client sends the cursor it was given *)
LastOf(t) == hist[t][Len(hist[t])]
FollowCursor ==
    \E t \in Clients :
        /\ setup = <<>> /\ task[t].pc = "idle" /\ todo[t] = <<>> /\ hist[t] # <<>>
        /\ LastOf(t).cmd.op = "SCAN"
        /\ LastOf(t).ret.arr[1] # Int0
        /\ todo' = [todo EXCEPT ![t] = <<[LastOf(t).cmd EXCEPT !.args[1] = LastOf(t).ret.arr[1]]>>]
        /\ UNCHANGED <<containers, heap, locks, expires_queue, now, task, setup, hist, pre>>

InitScan == InitOf(ScanScenarios)
NextScan ==
    \/ BeginCommand
    \/ TryGetContainer
    \/ GetContainer
    \/ LockContainer
    \/ KeysScan
    \/ KeysScanType
    \/ FollowCursor
SpecScanFair == InitScan /\ [][NextScan]_vars /\ WF_vars(NextScan)

(* the iteration is over: the last SCAN returned cursor 0 *)
ScanOver ==
    /\ setup = <<>> /\ hist["c1"] # <<>> /\ task["c1"].pc = "idle"
    /\ LastOf("c1").ret.arr[1] = Int0
(* the keys the SCANs returned so far, in the order of their return *)
RECURSIVE Returned(_)
Returned(h) == IF h = <<>> THEN <<>> ELSE h[1].ret.arr[2].arr \o Returned(Tail(h))
(* the keys the iteration is to return *)
ScanMatches(cmd) ==
    { Text(containers[i].key) : i \in { j \in DOMAIN containers :
          /\ cmd.args[3] \in {Nill, Text(type_to_string(heap[containers[j].ptr]))}
          /\ is_match(ScanPattern(cmd), containers[j].key) } }

(* C22: on a keyspace that is not modified, every SCAN returns cursor 0
   exactly when the positions it examined, cursor .. cursor + COUNT - 1,
   passed the last key; the iteration from cursor 0 ends, with cursor 0; and
   when it has ended the key arrays returned hold every key (with MATCH or
   TYPE: every matching key) exactly once. *)
C22_ScanVisitsEveryKeyOnce ==
    /\ [](\A i \in DOMAIN hist["c1"] :
            LET call == hist["c1"][i]
            IN call.ret.arr[1] = Int0 <=> call.cmd.args[1].int + call.cmd.args[2].int > Len(containers))
    /\ [](ScanOver =>
            LET keys == Returned(hist["c1"])
            IN /\ Range(keys) = ScanMatches(hist["c1"][1].cmd)
               /\ Len(keys) = Cardinality(Range(keys)))
    /\ <>[]ScanOver

(* an iteration over three keys with COUNT 1 and TYPE list has ended after
   four calls and returned the two lists *)
C22_Witness ==
    /\ ScanOver
    /\ Len(hist["c1"]) = 4
    /\ hist["c1"][1].cmd.args = <<Int0, IntV(1), Text("list")>>
    /\ Returned(hist["c1"]) = <<Text("a"), Text("c")>>


----------------------------------------------------------------------------
(* C23: a set and a hash whose fields are the set's members in the same
   order; one connection sends SSCAN and HSCAN with the same cursor, COUNT
   and MATCH.  No element to three, cursors 0..3, COUNT 1..ScanCount. *)

MirrorSetups ==
    { <<>>,
      <<Cmd("SADD", <<"s">>, <<x>>), Cmd("HSET", <<"h">>, <<x, Int0>>)>>,
      <<Cmd("SADD", <<"s">>, <<x, y, z>>), Cmd("HSET", <<"h">>, <<x, Int0, y, Int0, z, Int0>>)>> }
MirrorScenarios ==
    { Scenario(su, <<Cmd("SSCAN", <<"s">>, <<IntV(cursor), IntV(n)>> \o opts),
                     Cmd("HSCAN", <<"h">>, <<IntV(cursor), IntV(n)>> \o opts)>>, <<>>, <<>>)
      : su \in MirrorSetups, cursor \in 0..3, n \in 1..ScanCount,
        opts \in {<<>>, <<Text(".")>>, <<y>>} }

InitMirror == InitOf(MirrorScenarios)
NextMirror ==
    \/ BeginCommand
    \/ TryGetContainer
    \/ GetContainer
    \/ LockContainer
SpecMirror == InitMirror /\ [][NextMirror]_vars

(* C23: HSCAN on a hash whose fields are, in order, the members of a set
   returns the next cursor and the elements that SSCAN returns on the set for
   the same cursor, MATCH and COUNT. *)
C23_HScanMirrorsSScan ==
    (setup = <<>> /\ Len(hist["c1"]) = 2) => hist["c1"][2].ret = hist["c1"][1].ret


----------------------------------------------------------------------------
(* C24: a string under k; one connection sends a command on k under a name
   spelled in any mix of cases, or under a name that is no command, and then
   EXISTS k. *)

Spellings(u) == { [i \in DOMAIN u |-> IF i \in low THEN u[i] + 32 ELSE u[i]] : low \in SUBSET DOMAIN u }
NoCommand == { <<71, 69>>, <<71, 69, 84, 84>>, <<103, 51, 116>>, <<80, 73, 78, 71>>, <<100, 101, 108, 32>> }
NameScenarios ==
    { Scenario(su, <<Named(name, <<"k">>, <<>>), Cmd("EXISTS", <<"k">>, <<>>)>>, <<>>, <<>>)
      : su \in { <<Cmd("APPEND", <<"k">>, <<x>>)>>, <<Cmd("RPUSH", <<"k">>, <<x>>)>> },
        name \in NoCommand \cup UNION { Spellings(p[1]) : p \in CommandNames } }

InitNames == InitOf(NameScenarios)
NextNames ==
    \/ BeginCommand
    \/ EarlyReturn
    \/ TryGetContainer
    \/ GetContainer
    \/ LockContainer
    \/ GetContainers
    \/ TryGetContainers
    \/ LockAll
    \/ Locked
    \/ KsOp
SpecNames == InitNames /\ [][NextNames]_vars

(* the name is the command's, letter for letter, in whatever case *)
Spells(name, u) ==
    /\ Len(name) = Len(u)
    /\ \A i \in DOMAIN u : name[i] = u[i] \/ (u[i] \in 65..90 /\ name[i] = u[i] + 32)
(* what the handler of the command answers on k *)
AnswerOn(op, c) ==
    CASE op = "GET" -> IF c.kind = "string" THEN Buf(c.inner) ELSE UnexpectedType
      [] op = "DEL" -> IntV(1)
      [] op = "LLEN" -> IF c.kind = "list" THEN IntV(Len(c.inner)) ELSE UnexpectedType
      [] op = "TTL" -> IntV(-1)
      [] op = "DUMP" -> ErrV("Unimplemented")

(* C24: a command named in any mix of cases gets the answer of the handler of
   that name; a name that is no command gets Error("Unsupported command") and
   leaves keyspace and expiration queue as they were; an Err(text) of a
   handler reaches the connection as the Value Error(text). *)
C24_ExecuteMatchesAndWraps ==
    [][\A t \in Clients :
         (Completes(t) /\ "name" \in DOMAIN task[t].cmd) =>
            LET name == task[t].cmd.name
                known == { p \in CommandNames : Spells(name, p[1]) }
            IN /\ task'[t].pc = "idle"
               /\ \A p \in known : task'[t].ret = AnswerOn(p[2], StoredIn(pre[t], "k"))
               /\ known = {} => /\ task'[t].ret = ErrV("Unsupported command")
                                /\ UNCHANGED <<containers, heap, expires_queue>>
               /\ task[t].ret.t = "Err" => task'[t].ret = ErrV(task[t].ret.msg)]_vars

(* "gEt" has been answered with the string, "Dump" with Error("Unimplemented")
   or "llen" with the type error on the string *)
C24_Witness ==
    /\ hist["c1"] # <<>>
    /\ \/ hist["c1"][1].cmd.name = <<103, 69, 116>> /\ hist["c1"][1].ret = Buf(<<120>>)
       \/ hist["c1"][1].cmd.name = <<68, 117, 109, 112>> /\ hist["c1"][1].ret = ErrV("Unimplemented")
       \/ hist["c1"][1].cmd.name = <<108, 108, 101, 110>> /\ hist["c1"][1].ret = UnexpectedType


----------------------------------------------------------------------------
(* C25: one connection sends HSETNX, LSET or SMOVE with all its arguments,
   with some missing or with an index that is no integer, then EXISTS k;
   k is absent, a hash or a list. *)

ArgumentCommands ==
    { Cmd("HSETNX", keys, args) : keys \in {<<>>, <<"k">>}, args \in {<<>>, <<x>>, <<x, y>>} }
        \cup { Cmd("LSET", keys, args) : keys \in {<<>>, <<"k">>},
                                         args \in {<<>>, <<Int0>>, <<x, y>>, <<Int0, y>>, <<IntV(1), y>>} }
        \cup { Cmd("SMOVE", keys, args) : keys \in {<<>>, <<"k">>, <<"k", "j">>}, args \in {<<>>} }
ArgumentScenarios ==
    { Scenario(su, <<cmd, Cmd("EXISTS", <<"k">>, <<>>)>>, <<>>, <<>>)
      : su \in { <<>>, <<Cmd("HSET", <<"k">>, <<x, z>>)>>, <<Cmd("RPUSH", <<"k">>, <<x>>)>> },
        cmd \in ArgumentCommands }

InitArguments == InitOf(ArgumentScenarios)
NextArguments ==
    \/ BeginCommand
    \/ EarlyReturn
    \/ TryGetContainer
    \/ GetContainer
    \/ LockContainer
    \/ KsOp
SpecArguments == InitArguments /\ [][NextArguments]_vars

(* the command lacks an argument its handler needs, or its index is no integer *)
Incomplete(cmd) ==
    \/ cmd.keys = <<>>
    \/ cmd.op = "HSETNX" /\ Len(cmd.args) < 2
    \/ cmd.op = "LSET" /\ (Len(cmd.args) < 2 \/ cmd.args[1].t # "Integer")
    \/ cmd.op = "SMOVE" /\ (Len(cmd.keys) < 2 \/ cmd.args = <<>>)

(* C25: a command called with too few or mistyped arguments is answered with
   a Value::Error; its handler does not abort, and the connection goes on to
   its next command. *)
C25_IncompleteCommandIsError ==
    [][\A t \in Clients :
         (Completes(t) /\ Incomplete(task[t].cmd)) =>
            /\ task'[t].pc = "idle"
            /\ task'[t].ret.t = "Error"]_vars


----------------------------------------------------------------------------
(* C26: the sets a and b, created in either order; one connection moves x
   from a to b, another may move it back, a third reads the union. *)

MoveScenarios ==
    { Scenario(su, <<Cmd("SMOVE", <<"a", "b">>, <<x>>)>>, c2, <<Cmd("SUNION", <<"a", "b">>, <<>>)>>)
      : su \in { <<Cmd("SADD", <<"a">>, <<x>>), Cmd("SADD", <<"b">>, <<y>>)>>,
                 <<Cmd("SADD", <<"b">>, <<y>>), Cmd("SADD", <<"a">>, <<x, z>>)>>,
                 <<Cmd("SADD", <<"b">>, <<x>>), Cmd("SADD", <<"a">>, <<y>>)>>,
                 <<Cmd("SADD", <<"a">>, <<x>>)>>,
                 <<Cmd("SADD", <<"b">>, <<y>>)>> },
        c2 \in { <<>>, <<Cmd("SMOVE", <<"b", "a">>, <<x>>)>>, <<Cmd("SMOVE", <<"a", "b">>, <<x>>)>> } }

InitMove == InitOf(MoveScenarios)
NextMove ==
    \/ BeginCommand
    \/ WaitForLock
    \/ TryGetContainer
    \/ GetContainer
    \/ LockContainer
    \/ GetContainers
    \/ LockAll
    \/ Locked
SpecMove == InitMove /\ [][NextMove]_vars

(* the members of the set under the key; none when the key is absent *)
MembersOf(key) == Range(BufferOf(key))
MembersIn(s, key) == IF IsSome(MapGet(s.containers, key)) THEN Range(StoredIn(s, key).inner) ELSE {}

(* C26: SMOVE src dst m ends with 1, m out of src and in dst, when m was in
   src, and with 0 and both sets as they were otherwise, the first key being
   the source whatever the order of the locks; and a SUNION src dst sent when
   m was in one of the sets returns m. *)
C26_MoveIsAtomic ==
    [][\A t \in Clients :
         /\ (Completes(t) /\ task[t].cmd.op = "SMOVE") =>
               LET src == task[t].cmd.keys[1]
                   dst == task[t].cmd.keys[2]
                   m == task[t].cmd.args[1]
               IN IF m \in MembersOf(src)
                  THEN /\ task'[t].ret = IntV(1)
                       /\ MembersOf(src)' = MembersOf(src) \ {m}
                       /\ MembersOf(dst)' = MembersOf(dst) \cup {m}
                  ELSE /\ task'[t].ret = IntV(0)
                       /\ MembersOf(src)' = MembersOf(src)
                       /\ MembersOf(dst)' = MembersOf(dst)
         /\ (Completes(t) /\ task[t].cmd.op = "SUNION") =>
               /\ task'[t].ret.t = "Array"
               /\ x \in MembersIn(pre[t], "a") \cup MembersIn(pre[t], "b") => x \in Range(task'[t].ret.arr)]_vars

(* x has been moved from a to b while the SUNION waited for a lock, and the
   SUNION has returned x *)
C26_Witness ==
    /\ hist["c1"] # <<>> /\ hist["c1"][1].ret = IntV(1)
    /\ hist["c3"] # <<>> /\ x \in Range(hist["c3"][1].ret.arr)
    /\ x \in MembersIn(pre["c3"], "a")
    /\ x \in MembersOf("b") /\ x \notin MembersOf("a")


----------------------------------------------------------------------------
(* C27: the sets d, a and b, d with an expiration a tick away; one
   connection sends SDIFFSTORE, SINTERSTORE or SUNIONSTORE d a b and then
   SCARD d, while the clock advances and the reaper runs. *)

StoreOps == {"SDIFFSTORE", "SINTERSTORE", "SUNIONSTORE"}
StoreScenarios ==
    { Scenario(<<Cmd("SADD", <<"d">>, <<z>>), Cmd("SADD", <<"a">>, as), Cmd("SADD", <<"b">>, <<y>>)>> \o ex,
               <<Cmd(op, <<"d", "a", "b">>, <<>>), Cmd("SCARD", <<"d">>, <<>>)>>, <<>>, <<>>)
      : op \in StoreOps, as \in {<<x>>, <<x, y>>},
        ex \in {<<>>, <<Cmd("PEXPIRE", <<"d">>, <<IntV(1)>>)>>} }

InitStore == InitOf(StoreScenarios)
NextStore ==
    \/ BeginCommand
    \/ WaitForLock
    \/ TryGetContainer
    \/ GetContainer
    \/ LockContainer
    \/ ExpireKeyAt
    \/ InvokeAwaker
    \/ GetContainers
    \/ LockAll
    \/ Locked
    \/ KeysCheckExpirations
    \/ ReaperGet
    \/ ReaperRead
    \/ ReaperRemove
    \/ Tick
SpecStore == InitStore /\ [][NextStore]_vars

(* the set the command is to compute from the sets under its source keys *)
Computed(op, first, second) ==
    IF op = "SDIFFSTORE" THEN first \ second
    ELSE IF op = "SINTERSTORE" THEN first \cap second
    ELSE first \cup second

(* C27: a *STORE d a b returns the size of the computed set and leaves d
   holding that set, with no expiration time, and a and b as they were; and
   once it has returned, no reaper run removes d. *)
C27_StoreReplacesAndPersists ==
    [][/\ \A t \in Clients :
            (Completes(t) /\ task[t].cmd.op \in StoreOps) =>
               LET result == Computed(task[t].cmd.op, MembersOf("a"), MembersOf("b"))
               IN /\ task'[t].ret = IntV(Cardinality(result))
                  /\ Present("d")'
                  /\ MembersOf("d")' = result
                  /\ StoredUnder("d")'.expiration_time = None
                  /\ MembersOf("a")' = MembersOf("a")
                  /\ MembersOf("b")' = MembersOf("b")
       /\ \A r \in Reapers :
            (ReaperRemoves(r) /\ task[r].cmd.keys[1] = "d") => hist["c1"] = <<>>]_vars


----------------------------------------------------------------------------
(* C28: SPOP k, with no count and with the counts 0..PopSpan, on a missing
   set, a set of one member and a set of three, and SCARD k after it. *)

PopSpan == 4
PopScenarios ==
    { Scenario(su, <<Cmd("SPOP", <<"k">>, count), Cmd("SCARD", <<"k">>, <<>>)>>, <<>>, <<>>)
      : su \in { <<>>, <<Cmd("SADD", <<"k">>, <<x>>)>>, <<Cmd("SADD", <<"k">>, <<x, y, z>>)>> },
        count \in {<<>>} \cup { <<IntV(n)>> : n \in 0..PopSpan } }

InitPop == InitOf(PopScenarios)
NextPop ==
    \/ BeginCommand
    \/ TryGetContainer
    \/ GetContainer
    \/ LockContainer
SpecPop == InitPop /\ [][NextPop]_vars

(* C28: SPOP completes with an Array of distinct elements that were members
   of the set, and they are exactly the members the set has lost; so for
   every count from 0 on, also one above the cardinality, and for an empty
   or missing set. *)
C28_PopReturnsWhatItRemoves ==
    [][\A t \in Clients :
         (Completes(t) /\ task[t].cmd.op = "SPOP") =>
            /\ task'[t].pc = "idle"
            /\ task'[t].ret.t = "Array"
            /\ Len(task'[t].ret.arr) = Cardinality(Range(task'[t].ret.arr))
            /\ Range(task'[t].ret.arr) \subseteq MembersOf("k")
            /\ MembersOf("k")' = MembersOf("k") \ Range(task'[t].ret.arr)]_vars


----------------------------------------------------------------------------
(* C29: the keys a, b and c are created in this order, one of them perhaps
   with an expiration a tick away; a connection deletes or renames one of
   them, or leaves them to the reaper, and then enumerates the keys with
   KEYS and with SCAN. *)

InsertionOrder == <<"a", "b", "c", "d">>
OrderScenarios ==
    { Scenario(<<Cmd("SET", <<"a">>, <<x>>), Cmd("SET", <<"b">>, <<x>>), Cmd("SET", <<"c">>, <<x>>)>> \o ex,
               rm \o <<Cmd("KEYS", <<>>, <<Text(".")>>), Cmd("SCAN", <<>>, <<Int0, IntV(4), Nill>>)>>,
               <<>>, <<>>)
      : ex \in { <<>>, <<Cmd("PEXPIRE", <<"a">>, <<IntV(1)>>)>>, <<Cmd("PEXPIRE", <<"b">>, <<IntV(1)>>)>> },
        rm \in { <<>>, <<Cmd("DEL", <<"a">>, <<>>)>>, <<Cmd("DEL", <<"b">>, <<>>)>>,
                 <<Cmd("DEL", <<"c">>, <<>>)>>, <<Cmd("RENAME", <<"a", "d">>, <<>>)>>,
                 <<Cmd("RENAME", <<"c", "d">>, <<>>)>> } }

InitOrder == InitOf(OrderScenarios)
NextOrder ==
    \/ BeginCommand
    \/ KsOp
    \/ TryGetContainer
    \/ LockContainer
    \/ ExpireKeyAt
    \/ InvokeAwaker
    \/ KeysRenameRemove
    \/ KeyExpiration
    \/ KeysScan
    \/ KeysCheckExpirations
    \/ ReaperGet
    \/ ReaperRead
    \/ ReaperRemove
    \/ Tick
SpecOrder == InitOrder /\ [][NextOrder]_vars

(* the keys of the sequence come in the order of their insertion *)
InInsertionOrder(keys) ==
    \A i, j \in DOMAIN keys :
        i < j => Position(InsertionOrder, keys[i].text) < Position(InsertionOrder, keys[j].text)

(* C29: no step changes the relative position of two keys that stay in the
   keyspace, and KEYS and SCAN return the keys in the order of their
   insertion. *)
C29_KeysKeepInsertionOrder ==
    [][/\ \A k1, k2 \in MapKeys(containers) \cap MapKeys(containers') :
            IndexOfKey(containers, k1) < IndexOfKey(containers, k2)
                => IndexOfKey(containers', k1) < IndexOfKey(containers', k2)
       /\ \A t \in Clients :
            (Completes(t) /\ setup = <<>>) =>
               /\ task[t].cmd.op = "KEYS" => InInsertionOrder(task'[t].ret.arr)
               /\ task[t].cmd.op = "SCAN" => InInsertionOrder(task'[t].ret.arr[2].arr)]_vars


----------------------------------------------------------------------------
(* C30: the strings a and b, created in either order, a perhaps with an
   expiration; one connection sends MSET a y b y, another perhaps
   MSET b z a z, a third MGET over both keys in either order. *)

MultiScenarios ==
    { Scenario(su \o ex, <<Cmd("MSET", <<"a", "b">>, <<y, y>>)>>, c2, <<Cmd("MGET", keys, <<>>)>>)
      : su \in { <<Cmd("SET", <<"a">>, <<x>>), Cmd("SET", <<"b">>, <<x>>)>>,
                 <<Cmd("SET", <<"b">>, <<x>>), Cmd("SET", <<"a">>, <<x>>)>> },
        ex \in { <<>>, <<Cmd("EXPIRE", <<"a">>, <<IntV(1)>>)>> },
        c2 \in { <<>>, <<Cmd("MSET", <<"b", "a">>, <<z, z>>)>> },
        keys \in { <<"a", "b">>, <<"b", "a">> } }

InitMulti == InitOf(MultiScenarios)
NextMulti ==
    \/ BeginCommand
    \/ WaitForLock
    \/ KsOp
    \/ TryGetContainer
    \/ LockContainer
    \/ ExpireKeyAt
    \/ InvokeAwaker
    \/ GetContainers
    \/ TryGetContainers
    \/ LockAll
    \/ Locked
SpecMulti == InitMulti /\ [][NextMulti]_vars

(* C30: an MGET over keys that MSETs write concurrently returns, for all the
   keys, the values from before the MSETs or the values one MSET wrote,
   never a mixture; and an MSET leaves every key it writes with its value
   and with no expiration time. *)
C30_MSetMGetAreAtomic ==
    [][\A t \in Clients :
         /\ (Completes(t) /\ task[t].cmd.op = "MGET") =>
               task'[t].ret \in {Arr(<<v, v>>) : v \in {x, y, z}}
         /\ (Completes(t) /\ task[t].cmd.op = "MSET") =>
               /\ task'[t].ret = OkV
               /\ \A i \in DOMAIN task[t].cmd.keys :
                     /\ Present(task[t].cmd.keys[i])'
                     /\ StoredUnder(task[t].cmd.keys[i])'.inner = task[t].cmd.args[i].buf
                     /\ StoredUnder(task[t].cmd.keys[i])'.expiration_time = None]_vars

(* an MGET sent before the MSET had written has waited for a lock and
   returned the values the MSET wrote, and a has lost its expiration *)
C30_Witness ==
    /\ hist["c3"] # <<>> /\ hist["c3"][1].ret = Arr(<<y, y>>)
    /\ StoredIn(pre["c3"], "a").inner = x.buf
    /\ IsSome(StoredIn(pre["c3"], "a").expiration_time)
    /\ hist["c1"] # <<>>
    /\ Present("a") /\ StoredUnder("a").expiration_time = None


----------------------------------------------------------------------------
(* C31, on the runs of SpecReaper: RENAME, SCAN with TYPE, single-key
   commands, a multi-key command and reaper runs on the same keys. *)

(* the container locks the task holds, and the one it waits for or is about
   to take *)
ContainersHeldBy(t) == HeldBy(locks, t) \ {KS}
WantsContainer(t) == task[t].want # <<>> /\ task[t].want[1] # KS

(* C31: a task that holds the keyspace lock holds no container lock and is
   not at the acquisition of one. *)
C31_KeyspaceLockReleasedFirst ==
    \A t \in Tasks : Holds(locks, t, KS) => (ContainersHeldBy(t) = {} /\ ~WantsContainer(t))


----------------------------------------------------------------------------
(* C32: every way the code takes container locks, side by side: TYPE with
   several keys, a handler built on lock_all whose keys are asked for in
   descending address order, RENAME, SCAN with TYPE, single-key handlers and
   the reaper. *)

LocksScenarios ==
    { Scenario(<<Cmd("SADD", <<"a">>, <<x>>), Cmd("SADD", <<"b">>, <<y>>)>>,
               <<Cmd("TYPE", <<"a", "b">>, <<>>)>>, <<Cmd("SDIFFSTORE", <<"d", "b", "a">>, <<>>)>>, <<>>),
      Scenario(<<Cmd("SADD", <<"a">>, <<x>>), Cmd("SADD", <<"b">>, <<y>>)>>,
               <<Cmd("SMOVE", <<"b", "a">>, <<y>>)>>, <<Cmd("RENAME", <<"a", "c">>, <<>>)>>, <<>>),
      Scenario(<<Cmd("LPUSH", <<"l">>, <<x>>), Cmd("LPUSH", <<"m">>, <<y>>), Cmd("PEXPIRE", <<"l">>, <<Int0>>)>>,
               <<Cmd("SCAN", <<>>, <<Int0, IntV(2), Text("list")>>)>>,
               <<Cmd("TYPE", <<"m", "l">>, <<>>)>>, <<>>) }

InitLocks == InitOf(LocksScenarios)
NextLocks ==
    \/ NextReaper
    \/ TryGetContainers
    \/ KeysTypeLock
SpecLocks == InitLocks /\ [][NextLocks]_vars

InLockAll(t) == task[t].pc \in {"lock_all", "locked"}

(* C32: a task that holds a container lock and requests another one is inside
   lock_all, and the address it requests is above every address it holds;
   outside lock_all a task holds at most one container lock. *)
C32_OneContainerLockOutsideLockAll ==
    \A t \in Tasks :
        /\ (ContainersHeldBy(t) # {} /\ WantsContainer(t)) =>
              /\ task[t].pc = "lock_all"
              /\ \A h \in ContainersHeldBy(t) : h < task[t].want[1]
        /\ ~InLockAll(t) => Cardinality(ContainersHeldBy(t)) <= 1

(* inside lock_all, asked for three containers from the highest address down,
   a task holds the two lower ones and requests the third *)
C32_Witness ==
    \E t \in Clients :
        /\ task[t].pc = "lock_all"
        /\ Cardinality(ContainersHeldBy(t)) = 2
        /\ WantsContainer(t)
        /\ task[t].hs[1] = task[t].want[1]


----------------------------------------------------------------------------
(* C33: the handlers that set an expiration time, each on a key that exists:
   the EXPIRE family, SET with EX and with PX, SETEX, PSETEX, and RENAME of a
   key that has an expiration time. *)

TimedScenarios ==
    { Scenario(<<Cmd("APPEND", <<"k">>, <<x>>)>>, <<c>>, <<>>, <<>>)
      : c \in { Cmd(op, <<"k">>, <<IntV(1)>>) : op \in ExpireOps }
              \cup { Cmd("SET", <<"k">>, <<y, Buf(EX), IntV(1)>>),
                     Cmd("SET", <<"k">>, <<y, Buf(PX), IntV(1)>>),
                     Cmd("SETEX", <<"k">>, <<IntV(1), y>>),
                     Cmd("PSETEX", <<"k">>, <<IntV(1), y>>) } }
    \cup { Scenario(<<Cmd("APPEND", <<"k">>, <<x>>), Cmd("EXPIRE", <<"k">>, <<IntV(1)>>)>>,
                    <<Cmd("RENAME", <<"k", "j">>, <<>>)>>, <<>>, <<>>) }

InitTimed == InitOf(TimedScenarios)
NextTimed ==
    \/ BeginCommand
    \/ KsOp
    \/ TryGetContainer
    \/ GetContainer
    \/ LockContainer
    \/ KeysRenameRemove
    \/ KeyExpiration
    \/ ExpireKeyAt
    \/ InvokeAwaker
    \/ KeysCheckExpirations
    \/ ReaperGet
    \/ ReaperRead
    \/ ReaperRemove
    \/ Tick
SpecTimed == InitTimed /\ [][NextTimed]_vars

AtExpireKeyAt(t) == task[t].pc \in {"expire_key_at", "awaker"}

(* C33: a task at its call of Storage::expire_key_at, where the controller's
   mutex is taken and the awaker invoked, holds no container lock. *)
C33_NoContainerLockAtExpireKeyAt ==
    \A t \in Clients : AtExpireKeyAt(t) => ContainersHeldBy(t) = {}


----------------------------------------------------------------------------
(* C34: PEXPIRE on a key, racing with RENAME, SET and DEL of the key from
   another connection. *)

QueueRaceScenarios ==
    { Scenario(<<Cmd("APPEND", <<"k">>, <<x>>)>>, <<Cmd("PEXPIRE", <<"k">>, <<IntV(1)>>)>>, <<c>>, <<>>)
      : c \in { Cmd("RENAME", <<"k", "j">>, <<>>), Cmd("SET", <<"k">>, <<y>>),
                Cmd("DEL", <<"k">>, <<>>) } }

InitQueueRace == InitOf(QueueRaceScenarios)
NextQueueRace ==
    \/ BeginCommand
    \/ WaitForLock
    \/ KsOp
    \/ TryGetContainer
    \/ GetContainer
    \/ LockContainer
    \/ KeysRenameRemove
    \/ KeyExpiration
    \/ ExpireKeyAt
    \/ InvokeAwaker
    \/ KeysCheckExpirations
    \/ ReaperGet
    \/ ReaperRead
    \/ ReaperRemove
    \/ Tick
SpecQueueRace == InitQueueRace /\ [][NextQueueRace]_vars

(* the key, with the expiration time of its container, is in the queue *)
Queued(i) ==
    LET timepoint == get_expiration_time(heap[containers[i].ptr])
    IN IsSome(timepoint) => <<Unwrap(timepoint), containers[i].key>> \in expires_queue

(* C34: when no command and no reaper run is in progress, every key whose
   container has an expiration time is in the queue under that time. *)
C34_ExpiringKeysAreQueued ==
    AllDone => \A i \in DOMAIN containers : Queued(i)


----------------------------------------------------------------------------
(* C35: BITOP whose destination is also a source, the destination existing
   or not, next to BITOP on distinct keys. *)

OverlapScenarios ==
    { Scenario(su, <<Cmd("BITOP", keys, <<Text(o)>>)>>, <<Cmd("GET", <<"d">>, <<>>)>>, <<>>)
      : su \in { <<Cmd("APPEND", <<"a">>, <<x>>)>>, <<Cmd("APPEND", <<"d">>, <<x>>)>> },
        keys \in { <<"d", "d">>, <<"d", "a">> },
        o \in { "AND", "NOT" } }

InitOverlap == InitOf(OverlapScenarios)
NextOverlap ==
    \/ BeginCommand
    \/ WaitForLock
    \/ TryGetContainer
    \/ GetContainer
    \/ LockContainer
    \/ GetContainers
    \/ TryGetContainers
    \/ LockAll
    \/ Locked
SpecOverlap == InitOverlap /\ [][NextOverlap]_vars

(* the handles lock_all was given both as a write and as a read *)
AskedTwice(t) == (Range(task[t].hs) \cap Range(task[t].rs)) \ {KS}

(* C35: when lock_all is given a handle both as a write and as a read, the
   handle is locked once, for writing, and lock_all returns: the handler goes
   on to its callback and completes. *)
C35_WriteOverridesRead ==
    [][\A t \in Clients :
         (task[t].pc = "locked" /\ AskedTwice(t) # {} /\ Completes(t)) =>
             /\ \A a \in AskedTwice(t) : locks[a].holders = {<<t, "w">>}
             /\ task'[t].pc = "idle"]_vars


----------------------------------------------------------------------------
(* C36: requests of distinct handles whose order is not the order of the
   addresses: MSET and MGET on keys given from the later created to the
   earlier, MGET with an absent key between them, SDIFFSTORE into a new key. *)

OutputScenarios ==
    { Scenario(<<Cmd("APPEND", <<"a">>, <<x>>), Cmd("APPEND", <<"b">>, <<y>>)>>,
               <<Cmd("MSET", <<"b", "a">>, <<x, z>>)>>, <<Cmd("MGET", <<"b", "q", "a">>, <<>>)>>, <<>>),
      Scenario(<<Cmd("SADD", <<"a">>, <<x>>), Cmd("SADD", <<"b">>, <<y>>)>>,
               <<Cmd("SDIFFSTORE", <<"d", "b", "a">>, <<>>)>>, <<Cmd("SUNION", <<"b", "a">>, <<>>)>>, <<>>) }

InitOutput == InitOf(OutputScenarios)
NextOutput ==
    \/ BeginCommand
    \/ WaitForLock
    \/ TryGetContainer
    \/ GetContainer
    \/ LockContainer
    \/ GetContainers
    \/ TryGetContainers
    \/ LockAll
    \/ Locked
SpecOutput == InitOutput /\ [][NextOutput]_vars

DistinctHandles(t) ==
    NoRepeats(task[t].hs \o SelectSeq(task[t].rs, LAMBDA a : a # KS))

(* the guards lock_all returns to the task, slot by slot *)
GuardsInRequestOrder(t) ==
    LET out == lock_all_output(task[t].hs, task[t].rs)
    IN /\ Len(out.writes) = Len(task[t].hs)
       /\ \A i \in DOMAIN task[t].hs :
             /\ out.writes[i] = WriteGuard(task[t].hs[i])
             /\ <<t, "w">> \in locks[task[t].hs[i]].holders
       /\ Len(out.reads) = Len(task[t].rs)
       /\ \A j \in DOMAIN task[t].rs :
             IF task[t].rs[j] = KS THEN out.reads[j] = None
             ELSE /\ out.reads[j] = Some(ReadGuard(task[t].rs[j]))
                  /\ <<t, "r">> \in locks[task[t].rs[j]].holders

(* C36: given distinct handles, lock_all takes the locks in ascending order of
   address, skipping the absent read slots, and returns the guards in the order
   of the request: the i-th write guard guards the i-th write handle, the j-th
   read slot is None where the j-th read handle is absent and guards it
   otherwise.  MSET and MGET so act on their keys in the order given. *)
C36_GuardsInRequestOrder ==
    /\ [](\A t \in Clients :
            /\ (task[t].pc = "lock_all" /\ DistinctHandles(t)) =>
                  /\ task[t].want[1] # KS
                  /\ \A h \in ContainersHeldBy(t) : h < task[t].want[1]
            /\ (task[t].pc = "locked" /\ DistinctHandles(t)) => GuardsInRequestOrder(t))
    /\ [][\A t \in Clients :
            (task[t].pc = "locked" /\ Completes(t)) =>
                /\ task[t].cmd.op = "MSET" =>
                      /\ StoredUnder("b")'.inner = x.buf
                      /\ StoredUnder("a")'.inner = z.buf
                /\ task[t].cmd.op = "MGET" =>
                      task'[t].ret = Arr(<<Buf(StoredUnder("b").inner), Nill,
                                           Buf(StoredUnder("a").inner)>>)]_vars

(* lock_all has returned to MGET b q a: the first handle asked for has the
   higher address, the second is absent *)
C36_Witness ==
    \E t \in Clients :
        /\ task[t].pc = "locked"
        /\ Len(task[t].rs) = 3
        /\ task[t].rs[2] = KS
        /\ task[t].rs[1] > task[t].rs[3]
        /\ GuardsInRequestOrder(t)


----------------------------------------------------------------------------
(* C37: the expiration controller by itself: calls of expire_key_at (schedule)
   and of pop_now_and_expired_keys (drain) in any order while the clock
   advances.  The calls made so far are recorded, in order, under c1. *)

MaxCalls == 3
ControllerKeys == {"a", "b"}
Calls == hist["c1"]

InitController == InitOf({Scenario(<<>>, <<>>, <<>>, <<>>)})

Schedule ==
    /\ Len(Calls) < MaxCalls
    /\ \E key \in ControllerKeys, timepoint \in 0..MaxTime :
          /\ expires_queue' = ExpireController_expire_key_at(expires_queue, key, timepoint)
          /\ hist' = [hist EXCEPT !["c1"] =
                        Append(@, [call |-> "schedule", pair |-> <<timepoint, key>>])]
    /\ UNCHANGED <<containers, heap, locks, now, task, setup, todo, pre>>

Drain ==
    /\ Len(Calls) < MaxCalls
    /\ \E p \in {pop_now_and_expired_keys(expires_queue, now)} :
          /\ expires_queue' = p.tail
          /\ hist' = [hist EXCEPT !["c1"] =
                        Append(@, [call |-> "drain", pivot |-> p.now, keys |-> p.expired,
                                   before |-> expires_queue, after |-> p.tail])]
    /\ UNCHANGED <<containers, heap, locks, now, task, setup, todo, pre>>

NextController ==
    \/ Schedule
    \/ Drain
    \/ Tick
SpecController == InitController /\ [][NextController]_vars

Drains == {d \in DOMAIN Calls : Calls[d].call = "drain"}
Schedules == {i \in DOMAIN Calls : Calls[i].call = "schedule"}
(* the drain takes the pair out of the queue and returns its key *)
Returns(d, pair) ==
    /\ pair \in Calls[d].before \ Calls[d].after
    /\ pair[2] \in Calls[d].keys
(* the drains after call i whose pivot exceeds the pair's timestamp *)
DueAfter(i, pair) == {d \in Drains : d > i /\ Calls[d].pivot > pair[1]}
ReturnedAfter(i, pair) == {d \in Drains : d > i /\ Returns(d, pair)}
First(S) == CHOOSE d \in S : \A e \in S : d <= e

(* C37: a drain with pivot p returns the keys of exactly the buckets before p,
   removes those buckets and leaves the others as they were; a scheduled pair
   stays queued until the first later drain whose pivot exceeds its timestamp,
   is returned by that drain, and no drain returns a pair that was not
   scheduled since it was last returned. *)
C37_DrainSplitsAtPivot ==
    /\ \A d \in Drains :
          /\ Calls[d].keys = {pair[2] : pair \in {e \in Calls[d].before : e[1] < Calls[d].pivot}}
          /\ Calls[d].after = {e \in Calls[d].before : e[1] >= Calls[d].pivot}
    /\ \A i \in Schedules :
          LET pair == Calls[i].pair
          IN IF DueAfter(i, pair) = {}
             THEN ReturnedAfter(i, pair) = {} /\ pair \in expires_queue
             ELSE /\ ReturnedAfter(i, pair) # {}
                  /\ First(ReturnedAfter(i, pair)) = First(DueAfter(i, pair))
    /\ \A d \in Drains : \A pair \in Calls[d].before \ Calls[d].after :
          \E i \in Schedules :
             /\ i < d /\ Calls[i].pair = pair
             /\ \A e \in Drains : (i < e /\ e < d) => ~Returns(e, pair)

(* a pair was scheduled, a first drain came too early for it and left it
   queued, a second drain returned it *)
C37_Witness ==
    /\ Len(Calls) = 3
    /\ Calls[1].call = "schedule" /\ Calls[2].call = "drain" /\ Calls[3].call = "drain"
    /\ ~Returns(2, Calls[1].pair)
    /\ Returns(3, Calls[1].pair)


----------------------------------------------------------------------------
(* C38: expirations recorded by two connections at once, by the EXPIRE
   family, by SET with PX, by PSETEX and by RENAME, with the reaper runs they
   bring about. *)

AwakerScenarios ==
    { Scenario(<<Cmd("APPEND", <<"k">>, <<x>>)>>,
               <<Cmd("PEXPIRE", <<"k">>, <<IntV(1)>>)>>, <<Cmd("PEXPIRE", <<"k">>, <<Int0>>)>>, <<>>),
      Scenario(<<Cmd("APPEND", <<"k">>, <<x>>)>>,
               <<Cmd("SET", <<"k">>, <<y, Buf(PX), IntV(1)>>)>>,
               <<Cmd("PSETEX", <<"j">>, <<IntV(1), x>>)>>, <<>>),
      Scenario(<<Cmd("APPEND", <<"k">>, <<x>>), Cmd("PEXPIREAT", <<"k">>, <<IntV(1)>>)>>,
               <<Cmd("RENAME", <<"k", "j">>, <<>>)>>, <<>>, <<>>) }

InitAwaker == InitOf(AwakerScenarios)
NextAwaker ==
    \/ BeginCommand
    \/ WaitForLock
    \/ KsOp
    \/ TryGetContainer
    \/ GetContainer
    \/ LockContainer
    \/ KeysRenameRemove
    \/ KeyExpiration
    \/ ExpireKeyAt
    \/ InvokeAwaker
    \/ KeysCheckExpirations
    \/ ReaperGet
    \/ ReaperRead
    \/ ReaperRemove
    \/ Tick
SpecAwaker == InitAwaker /\ [][NextAwaker]_vars

(* the reaper runs the step starts *)
Awoken == {r \in Reapers : task[r].pc = "free" /\ task'[r].pc # "free"}
(* the timestamp the awaker was called with for the sleeping run *)
AwakerArgument(r) == task[r].cmd.args[1]
Steps(t) == task'[t] # task[t]

(* C38: the step of expire_key_at under the controller's mutex adds the entry
   (T, key) and calls no awaker; the next step of the handler calls the awaker
   once, with T, and the handler returns; no other step calls it.  The run the
   awaker starts sleeps, and leaves its sleep for keys_check_expirations only
   when the clock is at T or past it; it then takes its keys from the queue
   the connections fill and removes them from the keyspace the connections
   use. *)
C38_AwakerOncePerExpiration ==
    [][/\ \A t \in Clients :
            /\ (task[t].pc = "expire_key_at" /\ Steps(t)) =>
                  /\ <<Unwrap(task[t].tp), ExpireKey(task[t].cmd)>> \in expires_queue'
                  /\ task'[t].pc = "awaker"
                  /\ Awoken = {}
            /\ (task[t].pc = "awaker" /\ Steps(t)) =>
                  /\ Cardinality(Awoken) = 1
                  /\ \A r \in Awoken : /\ task'[r].pc = "sleep"
                                       /\ AwakerArgument(r)' = Unwrap(task[t].tp)
                  /\ Completes(t)
                  /\ expires_queue' = expires_queue
       /\ Awoken # {} => \E t \in Clients : task[t].pc = "awaker" /\ Steps(t)
       /\ \A r \in Reapers :
            /\ (task[r].pc = "sleep" /\ Steps(r)) =>
                  /\ now >= AwakerArgument(r)
                  /\ expires_queue' = {e \in expires_queue : e[1] > now}
                  /\ LET taken == {e[2] : e \in expires_queue \ expires_queue'}
                     IN IF taken = {} THEN task'[r].pc = "free"
                        ELSE /\ task'[r].pc = "reaper_get"
                             /\ task'[r].pend \cup {task'[r].cmd.keys[1]} = taken
            /\ (task[r].pc = "reaper_remove" /\ Steps(r)) =>
                  containers' = MapRemove(containers, task[r].cmd.keys[1])]_vars

(* a run started by the awaker has woken at or after its timestamp, found the
   key in the keyspace with its time passed, and is about to remove it *)
C38_Witness ==
    \E r \in Reapers :
        /\ task[r].pc = "reaper_remove"
        /\ Present(task[r].cmd.keys[1])
        /\ \A t \in Clients : task[t].pc = "idle"


----------------------------------------------------------------------------
(* C39: three connections send the same create-or-get command, each with its
   own value, on a key that does not exist; and SADD meets SMOVE, whose keys
   get_containers creates. *)

CreateScenarios ==
    { Scenario(<<>>, <<Cmd(op, <<"k">>, <<x>>)>>, <<Cmd(op, <<"k">>, <<y>>)>>, <<Cmd(op, <<"k">>, <<z>>)>>)
      : op \in {"LPUSH", "SADD", "APPEND"} }
    \cup { Scenario(<<>>, <<Cmd("SADD", <<"k">>, <<x>>)>>, <<Cmd("SMOVE", <<"k", "j">>, <<y>>)>>, <<>>) }

InitCreate == InitOf(CreateScenarios)
NextCreate ==
    \/ BeginCommand
    \/ WaitForLock
    \/ TryGetContainer
    \/ GetContainer
    \/ LockContainer
    \/ GetContainers
    \/ LockAll
    \/ Locked
SpecCreate == InitCreate /\ [][NextCreate]_vars

(* the task has its container handles: the i-th is the container stored under
   its i-th key *)
HasHandles(t) == task[t].pc \in {"lock", "lock_all", "locked"}
HandlesAreStored(t) ==
    \A i \in DOMAIN task[t].hs : MapGet(containers, task[t].cmd.keys[i]) = Some(task[t].hs[i])
(* the containers there are, and those the keyspace holds *)
Made == {h \in Handles : heap[h] # FreeSlot}
Stored == {containers[i].ptr : i \in DOMAIN containers}
(* the values the three connections sent, as the container keeps them *)
Kept(op) == IF op = "APPEND" THEN {x.buf[1], y.buf[1], z.buf[1]} ELSE {x, y, z}

(* C39: every connection gets the handle of the container stored under the
   key, no container exists outside the keyspace, and when the three commands
   have returned the container under k holds the three values, one each. *)
C39_CreateOrGetAgree ==
    /\ \A t \in Clients : HasHandles(t) => HandlesAreStored(t)
    /\ Made = Stored
    /\ (AllDone /\ Len(hist["c3"]) = 1) =>
          /\ Len(containers) = 1 /\ Present("k")
          /\ Range(StoredUnder("k").inner) = Kept(hist["c3"][1].cmd.op)
          /\ Len(StoredUnder("k").inner) = 3

(* two connections hold the handle of the one container while the third,
   having found the key missing, is about to look again under the write lock *)
C39_Witness ==
    \E t1, t2, t3 \in Clients :
        /\ t1 # t2
        /\ task[t1].pc = "lock" /\ task[t2].pc = "lock" /\ task[t3].pc = "create"
        /\ task[t1].hs = task[t2].hs
        /\ Len(containers) = 1


----------------------------------------------------------------------------
(* C40: DEL k and LPUSH k x from two connections, on a list k of one element
   or of two. *)

OrphanSetups ==
    { <<Cmd("LPUSH", <<"k">>, <<y>>)>>, <<Cmd("LPUSH", <<"k">>, <<y>>), Cmd("LPUSH", <<"k">>, <<z>>)>> }
OrphanScenarios ==
    { Scenario(su, <<Cmd("DEL", <<"k">>, <<>>)>>, <<Cmd("LPUSH", <<"k">>, <<x>>)>>, <<>>)
      : su \in OrphanSetups }

InitOrphan == InitOf(OrphanScenarios)
NextOrphan ==
    \/ BeginCommand
    \/ KsOp
    \/ TryGetContainer
    \/ GetContainer
    \/ LockContainer
SpecOrphan == InitOrphan /\ [][NextOrphan]_vars

(* the length of the list before the two commands, 0 once k is deleted: what
   LPUSH's connection saw when its command began (DEL alone changes nothing
   but the presence of k) *)
OldLength ==
    IF IsSome(MapGet(pre["c2"].containers, "k")) THEN Len(StoredIn(pre["c2"], "k").inner) ELSE 0
BothReturned == AllDone /\ hist["c1"] # <<>> /\ hist["c2"] # <<>>

(* C40: no command ends in a panic, and when DEL k and LPUSH k x have both
   returned, DEL has returned 1 and either k is absent and LPUSH returned the
   old length + 1 (LPUSH, then DEL), or k is the list [x] and LPUSH returned 1
   (DEL, then LPUSH). *)
C40_DelAndPushSerialize ==
    /\ \A t \in Clients : task[t].pc # "dead"
    /\ BothReturned =>
          /\ hist["c1"][1].ret = IntV(1)
          /\ \/ /\ ~Present("k")
                /\ containers = <<>>
                /\ OldLength > 0
                /\ hist["c2"][1].ret = IntV(OldLength + 1)
             \/ /\ Present("k")
                /\ StoredUnder("k").kind = "list"
                /\ StoredUnder("k").inner = <<x>>
                /\ hist["c2"][1].ret = IntV(1)

(* DEL has returned and k is gone; LPUSH, which got its handle before, is
   about to lock the orphaned container *)
C40_Witness ==
    /\ hist["c1"] # <<>>
    /\ ~Present("k")
    /\ task["c2"].pc = "lock"
    /\ heap[task["c2"].hs[1]].kind = "list"
    /\ heap[task["c2"].hs[1]].inner # <<>>
====
